---- MODULE Spec2Model ----
(***************************************************************************)
(* py-image-compress-mcp: the single-image compression engine              *)
(* (core/compression_engine.py) with the strategy selector, the format     *)
(* parameter builder, the output-path generator, the error handler and     *)
(* the compress_image facade, over an explicit file system.  Directory     *)
(* requests (engine/batch.py, compress_universal) and                      *)
(* compress_multi_format drive the same engine, one call per task.         *)
(*                                                                         *)
(* Conventions.  Python None is NoFormat for a format string, NoQuality    *)
(* for a quality, NoDim for a resize bound, NoPath for a path.  A path is  *)
(* a record [dir, stem, ext]; its name is stem \o ext.  Sizes are bytes.   *)
(* Float comparisons of the source are written as the equivalent integer   *)
(* comparisons (x > o * 1.005 as x > Permille(o, 1005)).                   *)
(***************************************************************************)
EXTENDS Integers, Sequences, FiniteSets, TLC

VARIABLES
    fs,             \* the files on disk: path -> content
    dirs,           \* the directories on disk (names)
    pc,             \* position of the call in process_image
    call,           \* the entry point called and the arguments given
    config,         \* process_image's local `config` (rebound at line 65)
    metadata,       \* process_image's local `metadata`
    processed,      \* _compress_image's processed_img / was_resized / target_format
    output_path,    \* _compress_image's local output_path
    compressed_size,\* _compress_image's local compressed_size
    fallback_threshold, \* _post_process_result's local, in permille
    trail,          \* what the call went through (skip path, failing stage)
    before,         \* the files and directories when the call was made
    result,         \* the CompressionResult returned
    raised,         \* the exception that reached the caller, if any
    batch           \* the directory or multi-format request in progress

vars == <<fs, dirs, pc, call, config, metadata, processed, output_path,
          compressed_size, fallback_threshold, trail, before, result,
          raised, batch>>

-----------------------------------------------------------------------------
(* Bounds of the model *)

\* input file sizes range over the first MaxSizeStep rungs of SizeLadder
MaxSizeStep == 4

-----------------------------------------------------------------------------
(* None values *)

NoFormat == "NONE"
NoQuality == 0
NoDim == 0
NoPath == [dir |-> "", stem |-> "", ext |-> "<none>"]

-----------------------------------------------------------------------------
(* Paths (pathlib) *)

Path(d, s, e) == [dir |-> d, stem |-> s, ext |-> e]

\* PurePath.name is empty for "/" and "."
HasEmptyName(p) == p.stem = "" /\ p.ext = ""

\* PurePath.with_suffix; the caller checks HasEmptyName (ValueError) first
with_suffix(p, suffix) == Path(p.dir, p.stem, suffix)

RootPath == Path("/", "", "")

\* Path.exists(): a file on disk, or a directory
exists(files, directories, p) ==
    \/ p \in DOMAIN files
    \/ (HasEmptyName(p) /\ p.dir \in directories)

\* Path.is_file()
is_file(files, p) == p \in DOMAIN files

-----------------------------------------------------------------------------
(* The codec's format registry: Image.registered_extensions() *)

registered_extensions(ext) ==
    CASE ext \in {".jpg", ".jpeg", ".jfif", ".jpe"} -> "JPEG"
      [] ext = ".png"  -> "PNG"
      [] ext = ".webp" -> "WEBP"
      [] ext = ".bmp"  -> "BMP"
      [] ext = ".gif"  -> "GIF"
      [] ext \in {".tif", ".tiff"} -> "TIFF"
      [] OTHER -> NoFormat

\* {fmt.upper() for fmt in Image.registered_extensions().values() if fmt}
supported_formats == {"JPEG", "PNG", "WEBP", "BMP", "GIF", "TIFF"}

\* str.upper() on the format strings of the model
upper(s) ==
    CASE s = "jpg"  -> "JPG"
      [] s = "jpeg" -> "JPEG"
      [] s = "png"  -> "PNG"
      [] s = "webp" -> "WEBP"
      [] OTHER -> s

-----------------------------------------------------------------------------
(* CompressionConfig (models/compression_config.py) *)

NoResizeConfig ==
    [is_none |-> TRUE, max_width |-> NoDim, max_height |-> NoDim,
     maintain_aspect_ratio |-> TRUE, upscale_allowed |-> FALSE]

ResizeConfig(w, h, keep, up) ==
    [is_none |-> FALSE, max_width |-> w, max_height |-> h,
     maintain_aspect_ratio |-> keep, upscale_allowed |-> up]

CompressionConfig(inp, outp, outd, mode, q, fmt, rs) ==
    [input_path |-> inp, output_path |-> outp, output_dir |-> outd,
     quality_mode |-> mode, custom_quality |-> q, target_format |-> fmt,
     resize_config |-> rs]

NoConfig ==
    CompressionConfig(NoPath, NoPath, "", "lossless", NoQuality, NoFormat,
                      NoResizeConfig)

effective_quality(c) ==
    IF c.quality_mode = "lossless" THEN NoQuality ELSE c.custom_quality

should_resize(c) ==
    /\ ~c.resize_config.is_none
    /\ (c.resize_config.max_width # NoDim \/ c.resize_config.max_height # NoDim)

get_quality_suffix(c) ==
    IF c.quality_mode # "lossless"
    THEN (IF effective_quality(c) # NoQuality
          THEN "_compress_" \o ToString(effective_quality(c))
          ELSE "_compress")
    ELSE "_compress"

get_format_extension(format_name) ==
    CASE upper(format_name) = "JPEG" -> ".jpg"
      [] upper(format_name) = "PNG"  -> ".png"
      [] upper(format_name) = "WEBP" -> ".webp"
      [] upper(format_name) = "GIF"  -> ".gif"
      [] upper(format_name) = "BMP"  -> ".bmp"
      [] upper(format_name) = "TIFF" -> ".tiff"
      [] upper(format_name) = "ICO"  -> ".ico"
      [] OTHER -> ".jpg"

determine_extension(c, original_path, format_override) ==
    IF format_override # NoFormat THEN get_format_extension(format_override)
    ELSE IF c.target_format # NoFormat
         THEN get_format_extension(c.target_format)
         ELSE original_path.ext

\* _generate_auto_path that adds the quality suffix even when asked not to
generate_auto_path_AlwaysSuffix(c, original_path, format_override, skip_suffix) ==
    Path(IF c.output_dir # "" THEN c.output_dir ELSE original_path.dir,
         original_path.stem \o get_quality_suffix(c),
         determine_extension(c, original_path, format_override))

generate_auto_path(c, original_path, format_override, skip_suffix) ==
    Path(IF c.output_dir # "" THEN c.output_dir ELSE original_path.dir,
         IF skip_suffix THEN original_path.stem
                        ELSE original_path.stem \o get_quality_suffix(c),
         determine_extension(c, original_path, format_override))

get_output_path(c, original_path, format_override, skip_suffix) ==
    IF c.output_path # NoPath
    THEN c.output_path
    ELSE generate_auto_path(c, original_path, format_override, skip_suffix)

-----------------------------------------------------------------------------
(* ImageMetadata (models/image_metadata.py), numbers in percent *)

ComplexityMetrics(e, c, t) ==
    [is_none |-> FALSE, edge_density |-> e, color_diversity |-> c,
     texture_complexity |-> t]

NoComplexity ==
    [is_none |-> TRUE, edge_density |-> 0, color_diversity |-> 0,
     texture_complexity |-> 0]

\* ComplexityMetrics.overall_complexity: the mean of the three against
\* 0.8 / 0.6 / 0.4 / 0.2
overall_complexity(c) ==
    LET total == c.edge_density + c.color_diversity + c.texture_complexity
    IN  IF total >= 240 THEN "very_high"
        ELSE IF total >= 180 THEN "high"
        ELSE IF total >= 120 THEN "medium"
        ELSE IF total >= 60 THEN "low"
        ELSE "very_low"

ImageMetadata(size, fmt, w, h, alpha, cx, mid) ==
    [file_size |-> size, format |-> fmt, width |-> w, height |-> h,
     has_transparency |-> alpha, complexity |-> cx, mid_ratio |-> mid]

NoMetadata == ImageMetadata(0, NoFormat, 0, 0, FALSE, NoComplexity, 0)

\* ImageInfoExtractor._extract_basic_info: img.format or "UNKNOWN", then the
\* extension when the codec reports none (codec_format = NoFormat)
detect_format(codec_format, file_path) ==
    LET detected_format ==
            IF codec_format # NoFormat THEN codec_format ELSE "UNKNOWN"
    IN  IF detected_format = "UNKNOWN"
           /\ registered_extensions(file_path.ext) # NoFormat
        THEN registered_extensions(file_path.ext)
        ELSE detected_format

\* ImageInfoExtractor.extract on a decodable file
extract(content, file_path, codec_format) ==
    ImageMetadata(content.size, detect_format(codec_format, file_path),
                  content.width, content.height, content.alpha,
                  content.complexity, content.mid_ratio)

\* analyze_image_from_metadata
analyze_image_from_metadata(m) ==
    LET cx == m.complexity
        simple0 == ~cx.is_none /\ overall_complexity(cx) = "simple"
        photo0 == ~cx.is_none
                  /\ overall_complexity(cx) \in {"moderate", "complex"}
        simple1 == simple0 \/ (~cx.is_none /\ cx.color_diversity < 10)
        photo1 == photo0 \/ (~cx.is_none /\ ~(cx.color_diversity < 10)
                             /\ cx.color_diversity > 50)
    IN  [is_simple_graphic |-> simple1,
         is_photo_like |-> photo1 \/ m.mid_ratio > 30,
         has_transparency |-> m.has_transparency]

-----------------------------------------------------------------------------
(* CompressionStrategy (core/strategy.py) *)

\* CompressionDecision with its recommended_format validator: `invalid`
\* stands for the ValueError the constructor raises
CompressionDecision(type, q, fmt, skip) ==
    [strategy_type |-> type, recommended_quality |-> q,
     recommended_format |-> IF fmt = NoFormat THEN fmt ELSE upper(fmt),
     skip_compression |-> skip,
     invalid |-> (fmt # NoFormat /\ upper(fmt) \notin supported_formats)]

NoDecision == CompressionDecision("none", NoQuality, NoFormat, FALSE)

should_skip_compression(m) ==
    \/ m.file_size < 5 * 1024
    \/ (m.format \in {"WEBP", "JPEG"} /\ m.file_size < 50 * 1024)
    \/ (/\ m.format = "PNG"
        /\ m.file_size < 100 * 1024
        /\ LET pixel_count == m.width * m.height
           IN  IF pixel_count > 0 THEN 2 * m.file_size < 3 * pixel_count
                                  ELSE TRUE)

\* _try_original_format_optimization that knows JPEG only
try_original_format_optimization_JpegOnly(m) ==
    IF m.format = "JPEG"
    THEN CompressionDecision("lossless", NoQuality, "JPEG", FALSE)
    ELSE CompressionDecision("none", NoQuality, NoFormat, FALSE)

\* NoDecision stands for the None returned for other formats
try_original_format_optimization(m) ==
    CASE m.format = "JPEG" ->
            CompressionDecision("lossless", NoQuality, "JPEG", FALSE)
      [] m.format = "PNG" ->
            CompressionDecision("lossless", NoQuality, "PNG", FALSE)
      [] m.format = "WEBP" ->
            IF m.file_size * 5 < 1024 * 1024
            THEN CompressionDecision("lossless", NoQuality, "WEBP", FALSE)
            ELSE CompressionDecision("lossy", 85, "WEBP", FALSE)
      [] OTHER -> NoDecision

estimate_color_count(m) ==
    LET pixel_count == m.width * m.height
        Min(a, b) == IF a < b THEN a ELSE b
        Max(a, b) == IF a > b THEN a ELSE b
        rating == IF m.complexity.is_none THEN "none"
                  ELSE overall_complexity(m.complexity)
    IN  IF rating \in {"very_low", "simple"}
        THEN Min(256, Max(16, pixel_count \div 1000))
        ELSE IF rating = "complex" THEN Min(65536, pixel_count \div 10)
        ELSE Min(4096, pixel_count \div 100)

handle_simple_graphic(m) ==
    IF m.format = "JPEG" /\ m.file_size * 10 > 1024 * 1024
    THEN CompressionDecision("lossy", 75, "JPEG", FALSE)
    ELSE IF estimate_color_count(m) <= 64 /\ m.file_size * 20 < 1024 * 1024
    THEN CompressionDecision("lossless", NoQuality, "PNG", FALSE)
    ELSE CompressionDecision("lossy", 80, "WEBP", FALSE)

\* the match over (has_transparency, is_simple_graphic, is_photo,
\* large_file, high_complexity); prefer_quality is the default True,
\* JPEG_QUALITY 85, WEBP_QUALITY 75
make_decision(factors, m) ==
    IF should_skip_compression(m)
    THEN CompressionDecision("skip", NoQuality, NoFormat, TRUE)
    ELSE IF factors.has_transparency /\ factors.large_file
    THEN CompressionDecision("lossy", 90, "WEBP", FALSE)
    ELSE IF factors.has_transparency
    THEN CompressionDecision("lossless", NoQuality, "PNG", FALSE)
    ELSE IF factors.is_simple_graphic
    THEN handle_simple_graphic(m)
    ELSE IF factors.is_photo /\ (factors.large_file \/ factors.high_complexity)
    THEN CompressionDecision("lossy", 85, "JPEG", FALSE)
    ELSE IF factors.is_photo
    THEN CompressionDecision("lossless", NoQuality, "WEBP", FALSE)
    ELSE IF factors.large_file
    THEN CompressionDecision("lossy", 75, "WEBP", FALSE)
    ELSE CompressionDecision("lossless", NoQuality, "WEBP", FALSE)

\* the `factors` dict of _analyze_and_decide; size_threshold_mb is 5
decision_factors(m) ==
    [large_file |-> m.file_size > 5 * 1024 * 1024,
     high_complexity |-> (~m.complexity.is_none
            /\ overall_complexity(m.complexity) = "complex"),
     has_transparency |-> m.has_transparency,
     is_photo |-> analyze_image_from_metadata(m).is_photo_like,
     is_simple_graphic |-> analyze_image_from_metadata(m).is_simple_graphic]

analyze_and_decide(m) ==
    IF should_skip_compression(m)
    THEN CompressionDecision("skip", NoQuality, m.format, TRUE)
    ELSE IF try_original_format_optimization(m) # NoDecision
    THEN try_original_format_optimization(m)
    ELSE make_decision(decision_factors(m), m)

suggest_format(m, user_preference) ==
    IF user_preference # NoFormat THEN upper(user_preference)
    ELSE IF m.has_transparency THEN "WEBP"
    ELSE IF analyze_image_from_metadata(m).is_photo_like THEN "WEBP"
    ELSE IF analyze_image_from_metadata(m).is_simple_graphic THEN "PNG"
    ELSE "WEBP"

apply_user_config(c, m) ==
    CompressionDecision(
        IF effective_quality(c) = NoQuality THEN "lossless" ELSE "lossy",
        effective_quality(c), suggest_format(m, c.target_format), FALSE)

\* select_optimal(metadata, config); config = NoConfig is "no config given"
select_optimal(m, c) ==
    IF c # NoConfig /\ c.quality_mode # "lossless"
    THEN apply_user_config(c, m)
    ELSE analyze_and_decide(m)

-----------------------------------------------------------------------------
(* Format parameter builder (core/formats.py) *)

\* get_jpeg_params without the step from quality 100 to 98
get_jpeg_params_Keep100(quality, c) ==
    [skip_processing |-> quality = NoQuality /\ c.input_path.ext \in {".jpg", ".jpeg"},
     actual_quality |-> IF quality # NoQuality THEN quality
                        ELSE IF c.input_path.ext \in {".jpg", ".jpeg"} THEN NoQuality
                        ELSE IF c.input_path.ext \in {".webp", ".avif", ".heif"} THEN 75
                        ELSE 85]

\* get_jpeg_params: [skip_processing, actual_quality]
get_jpeg_params(quality, c) ==
    IF quality = NoQuality
    THEN IF c.input_path.ext \in {".jpg", ".jpeg"}
         THEN [skip_processing |-> TRUE, actual_quality |-> NoQuality]
         ELSE IF c.input_path.ext \in {".webp", ".avif", ".heif"}
         THEN [skip_processing |-> FALSE, actual_quality |-> 75]
         ELSE [skip_processing |-> FALSE, actual_quality |-> 85]
    ELSE LET clamped == IF quality > 100 THEN 100
                        ELSE IF quality < 1 THEN 1 ELSE quality
         IN  [skip_processing |-> FALSE,
              actual_quality |-> IF clamped = 100 THEN 98 ELSE clamped]

get_save_parameters(format_name, c) ==
    IF format_name = "JPEG"
    THEN get_jpeg_params(effective_quality(c), c)
    ELSE [skip_processing |-> FALSE, actual_quality |-> effective_quality(c)]

-----------------------------------------------------------------------------
(* Files and the codec *)

\* what a file holds: `bytes` tells an original from an encoded output, a
\* stale output of an earlier run and a file the encoder left truncated
Content(bytes, fmt, w, h, size, alpha, cx, mid) ==
    [bytes |-> bytes, format |-> fmt, width |-> w, height |-> h,
     size |-> size, alpha |-> alpha, complexity |-> cx, mid_ratio |-> mid]

Truncated == Content("truncated", NoFormat, 0, 0, 0, FALSE, NoComplexity, 0)

Remove(files, p) == [q \in (DOMAIN files) \ {p} |-> files[q]]

Put(files, p, content) == (p :> content) @@ Remove(files, p)

\* _resize_image on a (width, height) pair.  int(x * ratio) is written
\* as the floor of the exact quotient.
resize_image(width, height, rc) ==
    LET max_width == IF rc.max_width # NoDim THEN rc.max_width ELSE width
        max_height == IF rc.max_height # NoDim THEN rc.max_height ELSE height
        by_width == max_width * height <= max_height * width
        Min(a, b) == IF a < b THEN a ELSE b
        scaled_w == IF by_width THEN (width * max_width) \div width
                                ELSE (width * max_height) \div height
        scaled_h == IF by_width THEN (height * max_width) \div width
                                ELSE (height * max_height) \div height
        new_width == IF rc.maintain_aspect_ratio THEN scaled_w
                     ELSE Min(width, max_width)
        new_height == IF rc.maintain_aspect_ratio THEN scaled_h
                      ELSE Min(height, max_height)
    IN  IF rc.is_none THEN <<width, height>>
        ELSE IF width <= max_width /\ height <= max_height
        THEN <<width, height>>
        ELSE IF ~rc.upscale_allowed
        THEN <<Min(new_width, width), Min(new_height, height)>>
        ELSE <<new_width, new_height>>

\* _process_image: the size of the processed image
process_image_dims(width, height, c) ==
    IF should_resize(c) THEN resize_image(width, height, c.resize_config)
    ELSE <<width, height>>

\* Image.save(output_path, **params) that does not fail: the codec picks
\* the encoding from the extension of output_path
SaveOk(files, p, w, h, size, src) ==
    Put(files, p,
        Content("encoded", registered_extensions(p.ext), w, h, size,
                src.alpha, src.complexity, src.mid_ratio))

\* Image.save that fails while writing: the codec opened the file "w+b";
\* it removes a file it created and leaves one that was there truncated
SaveFailed(files, p) ==
    IF p \in DOMAIN files THEN Put(files, p, Truncated) ELSE files

\* shutil.copy2(src, dst), src # dst and src a file
Copy(files, src, dst) == Put(files, dst, files[src])

-----------------------------------------------------------------------------
(* CompressionResult and ErrorHandler (exceptions.py) *)

Exception(type, paths) == [type |-> type, paths |-> paths]

NoException == Exception("none", {})

\* an error string that names the kind of the exception and not its text
ErrorMsg_TypeOnly(op, e) ==
    [is_none |-> FALSE, op |-> op, text |-> e.type, paths |-> {}]

\* an error string: the operation prefix, the exception's text, and the
\* paths the text spells out
ErrorMsg(op, e) == [is_none |-> FALSE, op |-> op, text |-> e.type,
                    paths |-> e.paths]

NoError == [is_none |-> TRUE, op |-> "", text |-> "", paths |-> {}]

CompressionResult(inp, outp, orig, comp, ok, fmt, q, resized, dims, err) ==
    [input_path |-> inp, output_path |-> outp, original_size |-> orig,
     compressed_size |-> comp, success |-> ok, format_used |-> fmt,
     quality_used |-> q, was_resized |-> resized, final_dimensions |-> dims,
     error |-> err]

NoResult ==
    CompressionResult(NoPath, NoPath, 0, 0, FALSE, "", NoQuality, FALSE,
                      <<0, 0>>, NoError)

\* what a handler hands back: a result, or an exception of its own
Returned(r) == [result |-> r, raised |-> NoException]

Raised(e) == [result |-> NoResult, raised |-> e]

\* ErrorHandler._create_error_result
create_error_result(files, input_path, error_msg, outp) ==
    IF outp = NoPath /\ HasEmptyName(input_path)
    THEN Raised(Exception("ValueError", {input_path}))
    ELSE Returned(CompressionResult(
            input_path,
            IF outp # NoPath THEN outp
                             ELSE with_suffix(input_path, ".compressed"),
            IF input_path \in DOMAIN files THEN files[input_path].size ELSE 0,
            0, FALSE, "UNKNOWN", NoQuality, FALSE, <<0, 0>>, error_msg))

\* ErrorHandler.handle_with_context
handle_with_context(files, error, input_path, operation, outp) ==
    create_error_result(files, input_path, ErrorMsg(operation, error), outp)

\* ErrorHandler.handle_validation_error
handle_validation_error(files, error, input_path, outp) ==
    create_error_result(files, input_path,
                        ErrorMsg("validation failed", error), outp)

\* ErrorHandler.handle_compression_error
handle_compression_error(files, error, input_path, operation) ==
    IF error.type = "ValidationError"
    THEN handle_validation_error(files, error, input_path, NoPath)
    ELSE IF error.type \in {"PermissionError"}
    THEN handle_with_context(files, error, input_path,
                             operation \o " - permission error", NoPath)
    ELSE IF error.type \in {"OSError", "SameFileError", "IsADirectoryError"}
    THEN handle_with_context(files, error, input_path,
                             operation \o " - system error", NoPath)
    ELSE handle_with_context(files, error, input_path, operation, NoPath)

-----------------------------------------------------------------------------
(* Compression engine (core/compression_engine.py) *)

\* the integer part of x * p / 1000, computed without a product over 2^31
Permille(x, p) == (x \div 1000) * p + ((x % 1000) * p) \div 1000

\* fallback_threshold of _post_process_result, in permille:
\* 1.005 if config.custom_quality is None else 1.02
threshold_of(c) == IF c.custom_quality = NoQuality THEN 1005 ELSE 1020

\* _post_process_result.  io says which of the three file operations the
\* operating system refuses (OSError): rename, unlink, copy.  An unlink or
\* a copy of a missing file fails by itself.  caught says that one of the
\* two except clauses ran.
post_process_result(files, c, outp, original_size, size, target_format, io) ==
    LET negligible ==
            IF original_size > 0
            THEN (original_size - size) * 100 < 5 * original_size
            ELSE TRUE
        should_use_original_name ==
            /\ c.quality_mode = "lossless"
            /\ negligible
            /\ c.output_path = NoPath
        new_output_path == get_output_path(c, c.input_path, target_format, TRUE)
        renamed ==
            /\ should_use_original_name
            /\ new_output_path # outp
            /\ new_output_path # c.input_path
            /\ ~io.rename
            /\ outp \in DOMAIN files
        files1 == IF renamed
                  THEN Put(Remove(files, outp), new_output_path, files[outp])
                  ELSE files
        outp1 == IF renamed THEN new_output_path ELSE outp
        exceeds == size > Permille(original_size, threshold_of(c))
        unlinked == exceeds /\ ~io.unlink /\ outp1 \in DOMAIN files1
        files2 == IF unlinked THEN Remove(files1, outp1) ELSE files1
        copied == unlinked /\ ~io.copy /\ c.input_path \in DOMAIN files2
        files3 == IF copied THEN Copy(files2, c.input_path, outp1) ELSE files2
        caught ==
            \/ (/\ should_use_original_name
                /\ new_output_path # outp
                /\ new_output_path # c.input_path
                /\ ~renamed)
            \/ (exceeds /\ ~copied)
    IN  [files |-> files3, output_path |-> outp1,
         compressed_size |-> IF copied THEN original_size ELSE size,
         fallback_threshold |-> threshold_of(c), caught |-> caught]

\* _apply_strategy_decision
apply_strategy_decision(c, decision) ==
    LET c1 == IF decision.recommended_format # NoFormat
              THEN [c EXCEPT !.target_format = decision.recommended_format]
              ELSE c
    IN  IF decision.recommended_quality # NoQuality
        THEN [c1 EXCEPT !.custom_quality = decision.recommended_quality,
                        !.quality_mode = "custom"]
        ELSE c1

\* _create_skip_result: [files, dirs, result | raised]
create_skip_result(files, directories, c) ==
    LET outp == get_output_path(c, c.input_path, NoFormat, FALSE)
    IN  IF outp = c.input_path
        THEN [files |-> files, dirs |-> directories \cup {outp.dir},
              out |-> Raised(Exception("SameFileError", {c.input_path, outp}))]
        ELSE [files |-> Copy(files, c.input_path, outp),
              dirs |-> directories \cup {outp.dir},
              out |-> Returned(CompressionResult(
                        c.input_path, outp, files[c.input_path].size,
                        files[c.input_path].size, TRUE, "SKIPPED", NoQuality,
                        FALSE, <<0, 0>>,
                        ErrorMsg("skipped", NoException)))]

\* the target format of _compress_image
target_format_of(c, m) ==
    LET t == IF c.target_format # NoFormat THEN c.target_format ELSE m.format
    IN  IF t = "UNKNOWN" THEN "JPEG" ELSE t

-----------------------------------------------------------------------------
(* The inputs of the model *)

\* file sizes: under 5 KiB, under 50 KiB, under 100 KiB, over 200 KiB,
\* over 5 MB
SizeLadder(k) ==
    CASE k = 1 -> 1200
      [] k = 2 -> 40000
      [] k = 3 -> 60000
      [] k = 4 -> 300000
      [] OTHER -> 6000000 * (k - 4)

\* an input file: its extension and the format its bytes are in
Kinds ==
    {[ext |-> ".png", format |-> "PNG"], [ext |-> ".jpg", format |-> "JPEG"],
     [ext |-> ".jfif", format |-> "JPEG"], [ext |-> ".webp", format |-> "WEBP"],
     [ext |-> ".bmp", format |-> "BMP"], [ext |-> "", format |-> "PNG"]}

Dims == {<<40, 40>>, <<800, 600>>}

MissingPath == Path("in", "missing", ".jpg")

ExplicitOut == Path("out", "x", ".jpg")

StaleContent ==
    Content("stale", "JPEG", 10, 10, 5000, FALSE, NoComplexity, 0)

InputCandidates(files) ==
    {p \in DOMAIN files : files[p].bytes = "orig"} \cup {RootPath, MissingPath}

Qualities == {NoQuality, 80}

TargetFormats == {NoFormat, "JPEG", "PNG", "WEBP"}

\* (output_path, output_dir): the automatic path beside the input or in a
\* directory, an explicit path, the input's own path
Destinations(inp) ==
    {<<NoPath, "">>, <<NoPath, "out">>, <<ExplicitOut, "">>, <<inp, "">>}

\* a call on a path that holds no image is made with the other options at
\* their defaults
FormatChoices(files, inp) ==
    IF inp \in DOMAIN files THEN TargetFormats ELSE {NoFormat}

ResizeChoices(files, inp) ==
    IF inp \in DOMAIN files
    THEN {NoResizeConfig, ResizeConfig(400, 300, TRUE, FALSE)}
    ELSE {NoResizeConfig}

\* format strings in lower case, one of them an alias; asked of
\* compress_image with the quality left out
OtherSpellings(files, inp, q) ==
    IF inp \in DOMAIN files /\ q = NoQuality THEN {"jpg", "webp"} ELSE {}

\* bounds that are not positive or lie over 50000; asked of compress_image
\* with the quality left out
OtherBounds(files, inp, q) ==
    IF inp \in DOMAIN files /\ q = NoQuality
    THEN {ResizeConfig(-1, NoDim, TRUE, FALSE),
          ResizeConfig(NoDim, 60000, TRUE, FALSE)}
    ELSE {}

\* the encoder's output size, in permille of the input's size: a clear
\* gain, a gain under 5%, a growth between the two thresholds, a growth
\* over both
EncodeOutcomes == {700, 970, 1010, 1050}

NoProcessed ==
    [width |-> 0, height |-> 0, was_resized |-> FALSE,
     target_format |-> NoFormat, quality_used |-> NoQuality]

NoTrail == [skip |-> "none", failed_at |-> "none"]

NoCall == [entry |-> "none", args |-> NoConfig]

\* BatchResult (models/compression_result.py)
BatchResult(input_dir, output_dir, results, success, error) ==
    [input_dir |-> input_dir, output_dir |-> output_dir, results |-> results,
     success |-> success, error |-> error]

NoBatchResult == BatchResult("", "", <<>>, FALSE, "<none>")

\* the state of a directory or multi-format request; scanned, written and
\* rescanned record what its scans enumerated and what its tasks wrote
NoBatch ==
    [entry |-> "none", stage |-> "idle", input_dir |-> "",
     input_path |-> NoPath, output |-> "", quality |-> NoQuality,
     asked |-> <<>>, formats |-> <<>>, idx |-> 0, recursive |-> TRUE, exclude_dirs |-> {},
     merged |-> FALSE, todo |-> {}, results |-> <<>>, all_results |-> <<>>,
     overall_success |-> TRUE, run |-> 0, scanned |-> {}, written |-> {},
     rescanned |-> {}, final |-> NoBatchResult]

Init ==
    \E kind \in Kinds, k \in 1..MaxSizeStep, d \in Dims, stale \in BOOLEAN :
        /\ fs = (Path("in", "a", kind.ext) :>
                    Content("orig", kind.format, d[1], d[2], SizeLadder(k),
                            FALSE, ComplexityMetrics(30, 30, 30), 20))
                @@ (IF stale THEN (ExplicitOut :> StaleContent) ELSE <<>>)
        /\ dirs = {"in", "/"} \cup (IF stale THEN {"out"} ELSE {})
        /\ pc = "idle"
        /\ call = NoCall
        /\ config = NoConfig
        /\ metadata = NoMetadata
        /\ processed = NoProcessed
        /\ output_path = NoPath
        /\ compressed_size = 0
        /\ fallback_threshold = 0
        /\ trail = NoTrail
        /\ before = [fs |-> fs, dirs |-> dirs]
        /\ result = NoResult
        /\ raised = NoException
        /\ batch = NoBatch

-----------------------------------------------------------------------------
(* ConfigBuilder (engine/config.py) *)

get_format_alias(format_str) ==
    IF upper(format_str) = "JPG" THEN "JPEG" ELSE upper(format_str)

\* _validate_common_params with validate_file_exists: the exception it
\* raises, NoException when it passes
validate_common_params(files, directories, input_path, quality, format, max_width, max_height) ==
    IF ~exists(files, directories, input_path)
    THEN Exception("FileNotFoundError", {input_path})
    ELSE IF quality # NoQuality /\ ~(1 <= quality /\ quality <= 100)
    THEN Exception("ValidationError", {})
    ELSE IF format # NoFormat /\ get_format_alias(format) \notin supported_formats
    THEN Exception("ValidationError", {})
    ELSE IF max_width # NoDim /\ max_width <= 0
    THEN Exception("ValidationError", {})
    ELSE IF max_height # NoDim /\ max_height <= 0
    THEN Exception("ValidationError", {})
    ELSE NoException

\* _create_config: quality decides the mode, the bounds the resize config;
\* raised is the pydantic error of CompressionConfig's validators
create_config(input_path, outp, output_dir, quality, format, max_width, max_height) ==
    IF format # NoFormat /\ upper(format) \notin supported_formats
    THEN [config |-> NoConfig, raised |-> Exception("PydanticValidationError", {})]
    ELSE [config |-> CompressionConfig(
                input_path, outp, output_dir,
                IF quality = NoQuality THEN "lossless" ELSE "custom",
                quality,
                IF format = NoFormat THEN format ELSE upper(format),
                IF max_width # NoDim \/ max_height # NoDim
                THEN ResizeConfig(max_width, max_height, TRUE, FALSE)
                ELSE NoResizeConfig),
          raised |-> NoException]

\* validate_and_build(validate_file_exists=True, validate_is_file=True):
\* every exception leaves as a CustomValidationError whose message keeps
\* the text, and so the paths, of the one it wraps
validate_and_build(files, directories, input_path, outp, output_dir, quality, format, max_width, max_height) ==
    LET common == validate_common_params(files, directories, input_path,
                                         quality, format, max_width, max_height)
        built == create_config(input_path, outp, output_dir, quality, format,
                               max_width, max_height)
    IN  IF common # NoException
        THEN [config |-> NoConfig,
              raised |-> Exception("ValidationError", common.paths)]
        ELSE IF ~is_file(files, input_path)
        THEN [config |-> NoConfig,
              raised |-> Exception("ValidationError", {input_path})]
        ELSE IF built.raised # NoException
        THEN [config |-> NoConfig,
              raised |-> Exception("ValidationError", built.raised.paths)]
        ELSE built

-----------------------------------------------------------------------------
(* The operations: one call of process_image, made directly or through
   ImageCompressor.compress_image *)

\* what the caller gets when a stage hands back `out`: the except clause of
\* process_image, then the one of compress_image if the call came through it
Outcome(files, out) ==
    LET inner == IF out.raised # NoException
                 THEN handle_compression_error(files, out.raised,
                                               config.input_path,
                                               "image compression engine")
                 ELSE out
    IN  IF call.entry = "compress_image" /\ inner.raised # NoException
        THEN handle_compression_error(files, inner.raised,
                                      call.args.input_path, "image compression")
        ELSE inner

\* the caller builds a CompressionConfig and calls process_image(config)
CallProcessImage ==
    /\ pc = "idle"
    /\ \E inp \in InputCandidates(fs), q \in Qualities :
        \E dest \in Destinations(inp), fmt \in FormatChoices(fs, inp),
           rs \in ResizeChoices(fs, inp) :
            /\ config' = CompressionConfig(
                            inp, dest[1], dest[2],
                            IF q = NoQuality THEN "lossless" ELSE "custom",
                            q, fmt, rs)
            /\ call' = [entry |-> "process_image", args |-> config']
    /\ pc' = "validate"
    /\ UNCHANGED <<batch, fs, dirs, metadata, processed, output_path,
                   compressed_size, fallback_threshold, trail, before,
                   result, raised>>

\* ImageCompressor.compress_image up to its call of process_image
CallCompressImage ==
    /\ pc = "idle"
    /\ \E inp \in InputCandidates(fs), q \in Qualities \cup {101} :
        \E dest \in Destinations(inp),
           fmt \in FormatChoices(fs, inp) \cup OtherSpellings(fs, inp, q),
           rs \in ResizeChoices(fs, inp) \cup OtherBounds(fs, inp, q) :
            LET built == validate_and_build(fs, dirs, inp, dest[1], dest[2], q,
                                            fmt, rs.max_width, rs.max_height)
                out == handle_compression_error(fs, built.raised, inp,
                                                "image compression")
            IN  /\ call' = [entry |-> "compress_image",
                            args |-> CompressionConfig(
                                inp, dest[1], dest[2],
                                IF q = NoQuality THEN "lossless" ELSE "custom",
                                q, fmt, rs)]
                /\ IF built.raised # NoException
                   THEN /\ config' = config
                        /\ result' = out.result
                        /\ raised' = out.raised
                        /\ trail' = [trail EXCEPT !.failed_at = "build"]
                        /\ pc' = "done"
                   ELSE /\ config' = built.config
                        /\ pc' = "validate"
                        /\ UNCHANGED <<result, raised, trail>>
    /\ UNCHANGED <<batch, fs, dirs, metadata, processed, output_path,
                   compressed_size, fallback_threshold, before>>

\* process_image: the check that the input exists
Validate ==
    /\ pc = "validate"
    /\ IF ~exists(fs, dirs, config.input_path)
       THEN LET out == Outcome(fs, handle_with_context(
                            fs,
                            Exception("FileNotFoundError", {config.input_path}),
                            config.input_path, "file validation", NoPath))
            IN  /\ result' = out.result
                /\ raised' = out.raised
                /\ trail' = [trail EXCEPT !.failed_at = "validate"]
                /\ pc' = "done"
       ELSE /\ pc' = "extract"
            /\ UNCHANGED <<result, raised, trail>>
    /\ UNCHANGED <<batch, fs, dirs, call, config, metadata, processed, output_path,
                   compressed_size, fallback_threshold, before>>

\* info_extractor.extract(config.input_path): Image.open fails on a
\* directory and on bytes it cannot identify; the codec reports the format
\* of the bytes or none
ExtractWith(Identified) ==
    /\ pc = "extract"
    /\ \E identified \in Identified :
        IF ~is_file(fs, config.input_path) \/ ~identified
        THEN LET out == Outcome(fs, Raised(
                    IF ~is_file(fs, config.input_path)
                    THEN Exception("IsADirectoryError", {config.input_path})
                    ELSE Exception("OSError", {config.input_path})))
             IN  /\ result' = out.result
                 /\ raised' = out.raised
                 /\ trail' = [trail EXCEPT !.failed_at = "extract"]
                 /\ pc' = "done"
                 /\ UNCHANGED metadata
        ELSE \E codec_format \in {fs[config.input_path].format, NoFormat} :
                /\ metadata' = extract(fs[config.input_path],
                                       config.input_path, codec_format)
                /\ pc' = IF config.target_format = NoFormat
                            /\ config.quality_mode = "lossless"
                         THEN "decide" ELSE "compress"
                /\ UNCHANGED <<result, raised, trail>>
    /\ UNCHANGED <<batch, fs, dirs, call, config, processed, output_path,
                   compressed_size, fallback_threshold, before>>

Extract == ExtractWith(BOOLEAN)

\* the same on a file the codec identifies
ExtractNoFault == ExtractWith({TRUE})

\* process_image: strategy.select_optimal, the strategy's skip and
\* _apply_strategy_decision
Decide ==
    /\ pc = "decide"
    /\ LET decision == select_optimal(metadata, config)
           skip == create_skip_result(fs, dirs, config)
       IN  IF decision.invalid
           THEN LET out == Outcome(fs, Raised(Exception("ValueError", {})))
                IN  /\ result' = out.result
                    /\ raised' = out.raised
                    /\ trail' = [trail EXCEPT !.failed_at = "decide"]
                    /\ pc' = "done"
                    /\ UNCHANGED <<fs, dirs, config>>
           ELSE IF decision.skip_compression
           THEN LET out == Outcome(skip.files, skip.out)
                IN  /\ fs' = skip.files
                    /\ dirs' = skip.dirs
                    /\ result' = out.result
                    /\ raised' = out.raised
                    /\ trail' = [skip |-> "strategy",
                                 failed_at |-> IF out.result.success
                                               THEN "none" ELSE "skip"]
                    /\ pc' = "done"
                    /\ UNCHANGED config
           ELSE /\ config' = apply_strategy_decision(config, decision)
                /\ pc' = "compress"
                /\ UNCHANGED <<fs, dirs, result, raised, trail>>
    /\ UNCHANGED <<batch, call, metadata, processed, output_path, compressed_size,
                   fallback_threshold, before>>

\* _compress_image up to the save: the output path and its directory, the
\* target format, _process_image, get_save_parameters and the builder's skip
CompressWith(Transformed) ==
    /\ pc = "compress"
    /\ \E transformed \in Transformed :
        LET outp == get_output_path(config, config.input_path, NoFormat, FALSE)
            made == dirs \cup {outp.dir}
            target_format == target_format_of(config, metadata)
            size == process_image_dims(metadata.width, metadata.height, config)
            params == get_save_parameters(target_format, config)
            skip == create_skip_result(fs, made, config)
        IN  IF ~transformed
            THEN LET out == Outcome(fs, Raised(Exception("MemoryError", {})))
                 IN  /\ dirs' = made
                     /\ result' = out.result
                     /\ raised' = out.raised
                     /\ trail' = [trail EXCEPT !.failed_at = "transform"]
                     /\ pc' = "done"
                     /\ UNCHANGED <<fs, processed, output_path>>
            ELSE IF params.skip_processing
            THEN LET out == Outcome(skip.files, skip.out)
                 IN  /\ fs' = skip.files
                     /\ dirs' = skip.dirs
                     /\ result' = out.result
                     /\ raised' = out.raised
                     /\ trail' = [skip |-> "builder",
                                  failed_at |-> IF out.result.success
                                                THEN "none" ELSE "skip"]
                     /\ pc' = "done"
                     /\ UNCHANGED <<processed, output_path>>
            ELSE /\ dirs' = made
                 /\ processed' =
                        [width |-> size[1], height |-> size[2],
                         was_resized |->
                            size # <<metadata.width, metadata.height>>,
                         target_format |-> target_format,
                         quality_used |-> params.actual_quality]
                 /\ output_path' = outp
                 /\ pc' = "encode"
                 /\ UNCHANGED <<fs, result, raised, trail>>
    /\ UNCHANGED <<batch, call, config, metadata, compressed_size,
                   fallback_threshold, before>>

Compress == CompressWith(BOOLEAN)

\* the same when _process_image raises nothing
CompressNoFault == CompressWith({TRUE})

\* processed_img.save(output_path, **save_params) and the stat of the
\* file: the codec refuses an extension it does not know before it opens
\* the file; a write that fails has opened it
EncodeWith(Outcomes) ==
    /\ pc = "encode"
    /\ \E permille \in Outcomes :
        IF registered_extensions(output_path.ext) = NoFormat \/ permille = 0
        THEN LET unknown == registered_extensions(output_path.ext) = NoFormat
                 files == IF unknown THEN fs ELSE SaveFailed(fs, output_path)
                 out == Outcome(files, Raised(
                            IF unknown THEN Exception("ValueError", {})
                            ELSE Exception("OSError", {})))
             IN  /\ fs' = files
                 /\ result' = out.result
                 /\ raised' = out.raised
                 /\ trail' = [trail EXCEPT !.failed_at = "encode"]
                 /\ pc' = "done"
                 /\ UNCHANGED compressed_size
        ELSE /\ fs' = SaveOk(fs, output_path, processed.width,
                             processed.height,
                             Permille(metadata.file_size, permille),
                             fs[config.input_path])
             /\ compressed_size' = Permille(metadata.file_size, permille)
             /\ pc' = "post"
             /\ UNCHANGED <<result, raised, trail>>
    /\ UNCHANGED <<batch, dirs, call, config, metadata, processed, output_path,
                   fallback_threshold, before>>

\* the write may fail (outcome 0)
Encode == EncodeWith(EncodeOutcomes \cup {0})

\* the same when the write does not fail
EncodeNoFault == EncodeWith(EncodeOutcomes)

\* _post_process_result and the CompressionResult of _compress_image
PostProcessWith(IO) ==
    /\ pc = "post"
    /\ \E io \in IO :
        LET post == post_process_result(fs, config, output_path,
                                        metadata.file_size, compressed_size,
                                        processed.target_format, io)
        IN  /\ fs' = post.files
            /\ output_path' = post.output_path
            /\ compressed_size' = post.compressed_size
            /\ fallback_threshold' = post.fallback_threshold
            /\ trail' = [skip |-> IF post.compressed_size # compressed_size
                                  THEN "fallback" ELSE trail.skip,
                         failed_at |-> IF post.caught THEN "post"
                                       ELSE trail.failed_at]
            /\ result' = CompressionResult(
                            config.input_path, post.output_path,
                            metadata.file_size, post.compressed_size, TRUE,
                            processed.target_format, processed.quality_used,
                            processed.was_resized,
                            <<processed.width, processed.height>>, NoError)
    /\ pc' = "done"
    /\ UNCHANGED <<batch, dirs, call, config, metadata, processed, before, raised>>

PostProcess ==
    PostProcessWith([rename : BOOLEAN, unlink : BOOLEAN, copy : BOOLEAN])

\* the same when the operating system refuses nothing
PostProcessNoFault ==
    PostProcessWith([rename : {FALSE}, unlink : {FALSE}, copy : {FALSE}])

Next ==
    \/ CallProcessImage
    \/ CallCompressImage
    \/ Validate
    \/ Extract
    \/ Decide
    \/ Compress
    \/ Encode
    \/ PostProcess

Spec == Init /\ [][Next]_vars

\* the calls in an environment that fails nothing: every file the codec
\* is given decodes, every write and every file operation goes through
NextNoFault ==
    \/ CallProcessImage
    \/ CallCompressImage
    \/ Validate
    \/ ExtractNoFault
    \/ Decide
    \/ CompressNoFault
    \/ EncodeNoFault
    \/ PostProcessNoFault

SpecNoFault == Init /\ [][NextNoFault]_vars

-----------------------------------------------------------------------------
(* Directory requests: BatchProcessor.process_directory (engine/batch.py),
   find_image_files (utils/file_helpers.py) and the directory branch of
   ImageCompressor.compress_universal (compressor.py).  The tasks of one
   batch run one after the other and complete in the order they run in:
   the schedule of BatchProcessor(max_workers=1). *)

\* the caller repeats a request while the input directory holds at most
\* MaxFiles files
MaxFiles == 3


\* a later run repeats the request up to MaxRuns times in all
MaxRuns == 2

\* the directories of the model and the components of their paths
DirNames ==
    {"in", "in/sub", "in/out", "in/out/sub", "out", "out/sub", "output",
     "in/output"}

\* PurePath.parts of a directory
DirParts(d) ==
    CASE d = "in"         -> <<"in">>
      [] d = "in/sub"     -> <<"in", "sub">>
      [] d = "in/out"     -> <<"in", "out">>
      [] d = "in/out/sub" -> <<"in", "out", "sub">>
      [] d = "in/output"  -> <<"in", "output">>
      [] d = "out"        -> <<"out">>
      [] d = "out/sub"    -> <<"out", "sub">>
      [] OTHER            -> <<d>>

\* d.relative_to(root) does not raise ValueError
is_relative_to(d, root) ==
    /\ Len(DirParts(root)) <= Len(DirParts(d))
    /\ SubSeq(DirParts(d), 1, Len(DirParts(root))) = DirParts(root)

\* the parts of file_path.relative_to(input_dir).parent
relative_parent(file_path, input_dir) ==
    SubSeq(DirParts(file_path.dir), Len(DirParts(input_dir)) + 1,
           Len(DirParts(file_path.dir)))

\* output_dir / relative_path.parent
file_output_dir(output_dir, rel) ==
    CHOOSE d \in DirNames : DirParts(d) = DirParts(output_dir) \o rel

\* Path.mkdir(parents=True, exist_ok=True)
mkdir(directories, d) ==
    directories \cup {x \in DirNames : is_relative_to(d, x)}

\* find_image_files: the files under `directory` whose suffix the codec
\* registers and whose path, from its first component to the file's name,
\* has no component named in exclude_dirs
find_image_files(files, directories, directory, recursive, exclude_dirs) ==
    IF directory \notin directories THEN {}
    ELSE {p \in DOMAIN files :
            /\ IF recursive THEN is_relative_to(p.dir, directory)
                            ELSE p.dir = directory
            /\ registered_extensions(p.ext) # NoFormat
            /\ \A x \in exclude_dirs :
                    /\ \A i \in 1..Len(DirParts(p.dir)) : DirParts(p.dir)[i] # x
                    /\ x # p.stem \o p.ext}

\* ConfigBuilder.build: no check of the arguments but the validators of
\* CompressionConfig; every exception leaves as a CustomValidationError
build(input_path, output_dir, quality, format, max_width, max_height) ==
    LET built == create_config(input_path, NoPath, output_dir, quality, format,
                               max_width, max_height)
    IN  IF built.raised # NoException
        THEN [config |-> NoConfig,
              raised |-> Exception("ValidationError", built.raised.paths)]
        ELSE built

\* CompressionValidators.validate_format: the standard name, NoFormat when
\* it raises
validate_format(format_str) ==
    IF format_str = "" THEN NoFormat
    ELSE IF get_format_alias(format_str) \notin supported_formats THEN NoFormat
    ELSE get_format_alias(format_str)

\* the loop of validate_and_normalize_formats over formats[1..n]
RECURSIVE normalize_formats(_, _)
normalize_formats(formats, n) ==
    IF n = 0 THEN <<>>
    ELSE LET validated == normalize_formats(formats, n - 1)
             fmt == formats[n]
         IN  IF fmt = "" \/ validate_format(fmt) = NoFormat
                \/ \E i \in 1..Len(validated) : validated[i] = validate_format(fmt)
             THEN validated
             ELSE Append(validated, validate_format(fmt))

\* validate_and_normalize_formats: raises when no format is left
validate_and_normalize_formats(formats, input_path) ==
    LET validated == normalize_formats(formats, Len(formats))
    IN  IF validated = <<>>
        THEN [formats |-> <<>>,
              raised |-> Exception("ValidationError", {input_path})]
        ELSE [formats |-> validated, raised |-> NoException]

\* BatchProcessor._create_empty_batch_result
create_empty_batch_result(input_dir, output_dir) ==
    BatchResult(input_dir, output_dir, <<>>, TRUE, "no image files found")

\* BatchProcessor._create_batch_result
create_batch_result(input_dir, output_dir, results) ==
    LET success_count == Cardinality({i \in 1..Len(results) : results[i].success})
        success == success_count > 0
    IN  BatchResult(input_dir, output_dir, results, success,
                    IF success THEN "" ELSE "all files failed")

\* ErrorHandler.create_error_batch_result
create_error_batch_result(input_dir, output_dir, error_message) ==
    BatchResult(input_dir, IF output_dir # "" THEN output_dir ELSE input_dir,
                <<>>, FALSE, error_message)

\* the last component of a directory's path: PurePath.name
dir_name(d) == DirParts(d)[Len(DirParts(d))]

\* what a directory request does once process_directory has made the
\* BatchResult r for the format at hand: process_directory's caller gets r;
\* _process_directory_unified with several formats adds r to the merged
\* result and goes on with the next format
finish_batch(b, r) ==
    IF ~b.merged THEN [b EXCEPT !.stage = "done", !.final = r]
    ELSE LET all_results == b.all_results \o r.results
             overall_success == b.overall_success /\ r.success
         IN  IF b.idx < Len(b.formats)
             THEN [b EXCEPT !.stage = "scan", !.idx = @ + 1, !.results = <<>>,
                            !.all_results = all_results,
                            !.overall_success = overall_success]
             ELSE [b EXCEPT !.stage = "done",
                            !.all_results = all_results,
                            !.overall_success = overall_success,
                            !.final = BatchResult(
                                b.input_dir,
                                IF b.output # "" THEN b.output ELSE b.input_dir,
                                all_results, overall_success,
                                IF overall_success THEN ""
                                ELSE "some formats failed")]

\* output_dir arguments: none, a directory outside the input directory, a
\* directory inside it
OutputDirs == {"", "out", "in/out"}

\* the exclude_dirs that _process_directory_unified passes
DefaultExcludes == {"output", ".venv", "node_modules", ".git", "__pycache__"}

\* the `formats` of compress_universal: none, a list of two, a list with an
\* alias, a repetition and an unknown name, a list without a valid name
FormatLists ==
    {<<NoFormat>>, <<"WEBP", "PNG">>, <<"jpg", "JPEG", "bogus">>,
     <<"", "bogus">>}

\* the locals of process_image before a call
NewCall(c) ==
    /\ config' = c
    /\ call' = [entry |-> batch.entry, args |-> c]
    /\ pc' = "validate"
    /\ metadata' = NoMetadata
    /\ processed' = NoProcessed
    /\ output_path' = NoPath
    /\ compressed_size' = 0
    /\ fallback_threshold' = 0
    /\ trail' = NoTrail
    /\ before' = [fs |-> fs, dirs |-> dirs]
    /\ result' = NoResult
    /\ raised' = NoException

\* the request when it is made.  process_directory goes to its scan;
\* _process_directory_unified goes to its first call of process_directory:
\* with one format (or none) it passes the format on as it is, with
\* several it validates them first
DirectoryRequest(entry, output, q, formats, recursive) ==
    LET request == [NoBatch EXCEPT !.entry = entry, !.input_dir = "in",
                                   !.output = output, !.quality = q,
                                   !.asked = formats,
                                   !.recursive = recursive, !.run = 1]
        validated == validate_and_normalize_formats(
                        SelectSeq(formats, LAMBDA f : f # NoFormat),
                        Path("in", "", ""))
    IN  IF entry = "process_directory"
        THEN [request EXCEPT !.stage = "scan", !.formats = formats, !.idx = 1]
        ELSE IF Len(formats) = 1
        THEN [request EXCEPT !.stage = "scan", !.formats = formats, !.idx = 1,
                             !.exclude_dirs = DefaultExcludes]
        ELSE IF validated.raised # NoException
        THEN [request EXCEPT
                !.stage = "done", !.exclude_dirs = DefaultExcludes,
                !.final = create_error_batch_result("in", output,
                                                    "no valid format")]
        ELSE [request EXCEPT !.stage = "scan", !.merged = TRUE,
                             !.formats = validated.formats, !.idx = 1,
                             !.exclude_dirs = DefaultExcludes]

\* a caller calls BatchProcessor.process_directory
CallProcessDirectory ==
    /\ pc = "waiting"
    /\ batch.stage = "idle"
    /\ \E output \in OutputDirs, q \in Qualities, fmt \in {NoFormat, "WEBP"},
          recursive \in BOOLEAN :
        batch' = DirectoryRequest("process_directory", output, q, <<fmt>>,
                                  recursive)
    /\ UNCHANGED <<fs, dirs, pc, call, config, metadata, processed,
                   output_path, compressed_size, fallback_threshold, trail,
                   before, result, raised>>

\* compress_universal on a directory: _process_directory_unified
CallCompressUniversal ==
    /\ pc = "waiting"
    /\ batch.stage = "idle"
    /\ \E output \in OutputDirs, formats \in FormatLists :
        batch' = DirectoryRequest("compress_universal", output, NoQuality,
                                  formats, TRUE)
    /\ UNCHANGED <<fs, dirs, pc, call, config, metadata, processed,
                   output_path, compressed_size, fallback_threshold, trail,
                   before, result, raised>>

\* process_directory up to the submission of its tasks: the directories,
\* the scan, one CompressionConfig per image file
ProcessDirectory ==
    /\ pc = "waiting"
    /\ batch.stage = "scan"
    /\ LET input_dir == batch.input_dir
           format == batch.formats[batch.idx]
           output_dir == IF batch.output = "" THEN input_dir ELSE batch.output
           directories == IF batch.output = "" THEN dirs
                          ELSE mkdir(dirs, output_dir)
           exclude_dirs ==
                batch.exclude_dirs \cup
                (IF output_dir # input_dir /\ is_relative_to(output_dir, input_dir)
                 THEN {dir_name(output_dir)} ELSE {})
           image_files == find_image_files(fs, directories, input_dir,
                                           batch.recursive, exclude_dirs)
           built == {build(p, file_output_dir(output_dir,
                                              relative_parent(p, input_dir)),
                           batch.quality, format, NoDim, NoDim) :
                     p \in image_files}
           noted == [batch EXCEPT !.scanned = image_files,
                                  !.rescanned = @ \cup
                                        (image_files \cap batch.written)]
       IN  /\ dirs' = directories
           /\ batch' =
                IF image_files = {}
                THEN finish_batch(noted, create_empty_batch_result(input_dir,
                                                                   output_dir))
                ELSE IF \E b \in built : b.raised # NoException
                THEN finish_batch(noted, create_error_batch_result(
                                            input_dir, output_dir,
                                            "configuration failed"))
                ELSE [noted EXCEPT !.stage = "run", !.results = <<>>,
                                   !.todo = {b.config : b \in built}]
    /\ UNCHANGED <<fs, pc, call, config, metadata, processed, output_path,
                   compressed_size, fallback_threshold, trail, before, result,
                   raised>>

\* process_image has returned: its locals are gone
Returns ==
    /\ config' = NoConfig
    /\ call' = NoCall
    /\ pc' = "waiting"
    /\ metadata' = NoMetadata
    /\ processed' = NoProcessed
    /\ output_path' = NoPath
    /\ compressed_size' = 0
    /\ fallback_threshold' = 0
    /\ trail' = NoTrail
    /\ before' = [fs |-> fs, dirs |-> dirs]
    /\ result' = NoResult
    /\ raised' = NoException

\* the worker of ConcurrentExecutor.execute_tasks takes the next task: it
\* calls process_image(config)
SubmitTask ==
    /\ pc = "waiting"
    /\ batch.stage = "run"
    /\ batch.todo # {}
    /\ LET c == CHOOSE x \in batch.todo : TRUE
       IN  /\ NewCall(c)
           /\ batch' = [batch EXCEPT !.todo = @ \ {c}]
    /\ UNCHANGED <<fs, dirs>>

\* _collect_results takes the task's result; after the last one
\* process_directory makes the BatchResult
CollectTask ==
    /\ pc = "done"
    /\ batch.stage = "run"
    /\ LET out == IF raised # NoException
                  THEN handle_with_context(fs, raised, config.input_path,
                                           "concurrent task", NoPath)
                  ELSE Returned(result)
           output_dir == IF batch.output = "" THEN batch.input_dir
                         ELSE batch.output
           results == Append(batch.results, out.result)
           noted == [batch EXCEPT
                        !.results = results,
                        !.written = @ \cup (IF out.result.success
                                            THEN {out.result.output_path}
                                            ELSE {})]
       IN  batch' =
                IF out.raised # NoException
                THEN finish_batch(batch, create_error_batch_result(
                                            batch.input_dir, output_dir,
                                            "task failed"))
                ELSE IF batch.todo = {}
                THEN finish_batch(noted, create_batch_result(
                                            batch.input_dir, output_dir,
                                            results))
                ELSE noted
    /\ Returns
    /\ UNCHANGED <<fs, dirs>>

\* the caller makes the same request again
RunAgain ==
    /\ pc = "waiting"
    /\ batch.stage = "done"
    /\ batch.run < MaxRuns
    /\ Cardinality({p \in DOMAIN fs : is_relative_to(p.dir, batch.input_dir)})
            <= MaxFiles
    /\ batch' = [DirectoryRequest(batch.entry, batch.output, batch.quality,
                                  batch.asked, batch.recursive)
                    EXCEPT !.run = batch.run + 1, !.written = batch.written,
                           !.rescanned = batch.rescanned]
    /\ UNCHANGED <<fs, dirs, pc, call, config, metadata, processed,
                   output_path, compressed_size, fallback_threshold, trail,
                   before, result, raised>>

\* the encoder in a batch: a failed write, a clear gain, a gain under 5%
BatchEncode == EncodeWith({0, 700, 970})

\* the image files of the input directory
Images ==
    {[dir |-> "in", stem |-> "a", ext |-> ".jpg", format |-> "JPEG"],
     [dir |-> "in", stem |-> "a", ext |-> ".png", format |-> "PNG"],
     [dir |-> "in/sub", stem |-> "b", ext |-> ".png", format |-> "PNG"]}

\* a file that is no image
NotesFile == Path("in", "notes", ".txt")

ImageFile(i) ==
    Path(i.dir, i.stem, i.ext) :>
        Content("orig", i.format, 800, 600, SizeLadder(4), FALSE,
                ComplexityMetrics(30, 30, 30), 20)

RECURSIVE Tree(_)
Tree(images) ==
    IF images = {} THEN NotesFile :> Content("text", NoFormat, 0, 0, 100, FALSE,
                                             NoComplexity, 0)
    ELSE LET i == CHOOSE x \in images : TRUE
         IN  ImageFile(i) @@ Tree(images \ {i})

InitBatch ==
    \E images \in {s \in SUBSET Images : Cardinality(s) <= 2} :
        /\ fs = Tree(images)
        /\ dirs = {"in", "/"} \cup {i.dir : i \in images}
        /\ pc = "waiting"
        /\ call = NoCall
        /\ config = NoConfig
        /\ metadata = NoMetadata
        /\ processed = NoProcessed
        /\ output_path = NoPath
        /\ compressed_size = 0
        /\ fallback_threshold = 0
        /\ trail = NoTrail
        /\ before = [fs |-> fs, dirs |-> dirs]
        /\ result = NoResult
        /\ raised = NoException
        /\ batch = NoBatch

NextBatch ==
    \/ CallProcessDirectory
    \/ CallCompressUniversal
    \/ ProcessDirectory
    \/ SubmitTask
    \/ Validate
    \/ ExtractNoFault
    \/ Decide
    \/ CompressNoFault
    \/ BatchEncode
    \/ PostProcessNoFault
    \/ CollectTask
    \/ RunAgain

SpecBatch == InitBatch /\ [][NextBatch]_vars

-----------------------------------------------------------------------------
(* ImageCompressor.compress_multi_format (compressor.py): one input, one
   output directory, a list of formats.  Every config has a target format,
   so process_image does not consult the strategy. *)

\* MultiFormatResult (models/compression_result.py)
MultiFormatResult(input_path, results, success, error) ==
    [input_path |-> input_path, results |-> results, success |-> success,
     error |-> error]

\* _process_formats after the try statement of one format has handed back
\* `out`: an exception of the except clause leaves _process_formats and is
\* caught by compress_multi_format; after the last format
\* compress_multi_format makes the MultiFormatResult
after_format(b, out) ==
    LET results == Append(b.results, out.result)
        success == \E i \in 1..Len(results) : results[i].success
    IN  IF out.raised # NoException
        THEN [b EXCEPT !.stage = "done",
                       !.final = MultiFormatResult(b.input_path, <<>>, FALSE,
                                                   out.raised.type)]
        ELSE IF b.idx < Len(b.formats)
        THEN [b EXCEPT !.results = results, !.idx = @ + 1]
        ELSE [b EXCEPT !.results = results, !.stage = "done",
                       !.final = MultiFormatResult(
                                    b.input_path, results, success,
                                    IF success THEN ""
                                    ELSE "all formats failed")]

\* compress_multi_format up to the loop of _process_formats
CallCompressMultiFormat ==
    /\ pc = "idle"
    /\ batch.stage = "idle"
    /\ \E inp \in InputCandidates(fs), q \in Qualities :
        \E formats \in IF inp \in DOMAIN fs THEN FormatLists \ {<<NoFormat>>}
                                            ELSE {<<"WEBP", "PNG">>} :
            LET validated == validate_and_normalize_formats(formats, inp)
                request == [NoBatch EXCEPT !.entry = "compress_multi_format",
                                           !.input_path = inp, !.output = "out",
                                           !.quality = q, !.asked = formats,
                                           !.run = 1]
            IN  batch' =
                    IF validated.raised # NoException
                    THEN [request EXCEPT
                            !.stage = "done",
                            !.final = MultiFormatResult(inp, <<>>, FALSE,
                                                        validated.raised.type)]
                    ELSE [request EXCEPT !.stage = "run", !.idx = 1,
                                         !.formats = validated.formats]
    /\ dirs' = mkdir(dirs, "out")
    /\ pc' = "waiting"
    /\ UNCHANGED <<fs, call, config, metadata, processed, output_path,
                   compressed_size, fallback_threshold, trail, before, result,
                   raised>>

\* _process_formats: the next format's config_builder.build and the call
\* of process_image(config)
StartFormat ==
    /\ pc = "waiting"
    /\ batch.entry = "compress_multi_format"
    /\ batch.stage = "run"
    /\ LET built == build(batch.input_path, batch.output, batch.quality,
                          batch.formats[batch.idx], NoDim, NoDim)
       IN  IF built.raised # NoException
           THEN /\ batch' = after_format(batch, handle_compression_error(
                                fs, built.raised, batch.input_path,
                                "format compression"))
                /\ UNCHANGED <<pc, call, config, metadata, processed,
                               output_path, compressed_size,
                               fallback_threshold, trail, before, result,
                               raised>>
           ELSE /\ NewCall(built.config)
                /\ UNCHANGED batch
    /\ UNCHANGED <<fs, dirs>>

\* _process_formats: process_image has returned or raised
CollectFormat ==
    /\ pc = "done"
    /\ batch.entry = "compress_multi_format"
    /\ batch.stage = "run"
    /\ batch' = after_format(batch,
                    IF raised # NoException
                    THEN handle_compression_error(fs, raised, batch.input_path,
                                                  "format compression")
                    ELSE Returned(result))
    /\ Returns
    /\ UNCHANGED <<fs, dirs>>

NextMulti ==
    \/ CallCompressMultiFormat
    \/ StartFormat
    \/ Validate
    \/ ExtractNoFault
    \/ CompressNoFault
    \/ BatchEncode
    \/ PostProcessNoFault
    \/ CollectFormat

SpecMulti == Init /\ [][NextMulti]_vars

-----------------------------------------------------------------------------
(* The parameter builder by itself: get_save_parameters(target_format,
   config) for every quality a CompressionConfig admits *)

InitBuilder ==
    \E kind \in Kinds, q \in 0..100, fmt \in {"JPEG", "PNG", "WEBP"} :
        /\ config = CompressionConfig(
                        Path("in", "a", kind.ext), NoPath, "",
                        IF q = NoQuality THEN "lossless" ELSE "custom", q, fmt,
                        NoResizeConfig)
        /\ fs = <<>>
        /\ dirs = {"in", "/"}
        /\ pc = "build"
        /\ call = NoCall
        /\ metadata = NoMetadata
        /\ processed = NoProcessed
        /\ output_path = NoPath
        /\ compressed_size = 0
        /\ fallback_threshold = 0
        /\ trail = NoTrail
        /\ before = [fs |-> fs, dirs |-> dirs]
        /\ result = NoResult
        /\ raised = NoException
        /\ batch = NoBatch

\* base_params, actual_quality = get_save_parameters(target_format, config)
BuildSaveParameters ==
    /\ pc = "build"
    /\ LET built == get_save_parameters(config.target_format, config)
       IN  processed' = [processed EXCEPT
                            !.target_format = config.target_format,
                            !.quality_used = built.actual_quality]
    /\ pc' = "built"
    /\ UNCHANGED <<fs, dirs, call, config, metadata, output_path,
                   compressed_size, fallback_threshold, trail, before, result,
                   raised, batch>>

SpecBuilder == InitBuilder /\ [][BuildSaveParameters]_vars

-----------------------------------------------------------------------------
(* One call on a large photograph stored as PNG: 2000 x 1600 pixels,
   3.5 MB, no transparency *)

PhotoPng == Path("in", "photo", ".png")

InitPhoto ==
    \E stale \in BOOLEAN :
        /\ fs = (PhotoPng :>
                    Content("orig", "PNG", 2000, 1600, 3670016, FALSE,
                            ComplexityMetrics(60, 60, 60), 40))
                @@ (IF stale THEN (ExplicitOut :> StaleContent) ELSE <<>>)
        /\ dirs = {"in", "/"} \cup (IF stale THEN {"out"} ELSE {})
        /\ pc = "idle"
        /\ call = NoCall
        /\ config = NoConfig
        /\ metadata = NoMetadata
        /\ processed = NoProcessed
        /\ output_path = NoPath
        /\ compressed_size = 0
        /\ fallback_threshold = 0
        /\ trail = NoTrail
        /\ before = [fs |-> fs, dirs |-> dirs]
        /\ result = NoResult
        /\ raised = NoException
        /\ batch = NoBatch

SpecPhoto == InitPhoto /\ [][NextNoFault]_vars

-----------------------------------------------------------------------------
(* The claims *)

\* the call has returned a CompressionResult to its caller
Completed == pc = "done" /\ raised = NoException

\* the input file as it was when the call was made
InputBefore == before.fs[call.args.input_path]

\* C1: every successful result that is not a skip has compressed_size <=
\* original_size * threshold, or the fallback copy ran and the file at
\* output_path is a copy of the input of the same size; no such result
\* reports or leaves on disk an output over that bound.
C1_SuccessNeverLarger ==
    (Completed /\ result.success /\ result.format_used # "SKIPPED") =>
        /\ result.compressed_size
                <= Permille(result.original_size, fallback_threshold)
        /\ result.output_path \in DOMAIN fs
        /\ fs[result.output_path].size
                <= Permille(result.original_size, fallback_threshold)
        /\ (trail.skip = "fallback" =>
                /\ result.compressed_size = result.original_size
                /\ fs[result.output_path] = InputBefore)

\* C2: post-processing uses the threshold 1.005 when the caller gave no
\* quality and 1.02 only when the caller gave one; a quality chosen by the
\* strategy does not widen it.
C2_ThresholdFollowsCaller ==
    (Completed /\ result.success /\ result.format_used # "SKIPPED") =>
        fallback_threshold =
            IF call.args.custom_quality = NoQuality THEN 1005 ELSE 1020

\* C3: a successful call whose config carries resize bounds W, H leaves at
\* output_path an image of width <= W and height <= H, in the input's
\* aspect ratio up to rounding, and never larger than the input.
C3_OutputWithinBounds ==
    (Completed /\ result.success /\ ~call.args.resize_config.is_none) =>
        /\ result.output_path \in DOMAIN fs
        /\ LET out == fs[result.output_path]
               rc == call.args.resize_config
           IN  /\ rc.max_width # NoDim => out.width <= rc.max_width
               /\ rc.max_height # NoDim => out.height <= rc.max_height
               /\ out.width <= InputBefore.width
               /\ out.height <= InputBefore.height
               /\ rc.maintain_aspect_ratio =>
                    /\ out.width * InputBefore.height
                          <= (out.height + 1) * InputBefore.width
                    /\ out.height * InputBefore.width
                          <= (out.width + 1) * InputBefore.height

\* C4: an input detected as JPEG, in lossless mode with JPEG as the
\* effective target format, is never re-encoded: the call succeeds with
\* format_used "SKIPPED", compressed_size = original_size and a verbatim
\* copy of the input at output_path.
C4_LosslessJpegSkipped ==
    (/\ pc = "done"
     /\ metadata.format = "JPEG"
     /\ call.args.quality_mode = "lossless"
     /\ target_format_of(config, metadata) = "JPEG") =>
        /\ Completed
        /\ result.success
        /\ result.format_used = "SKIPPED"
        /\ result.compressed_size = result.original_size
        /\ result.output_path \in DOMAIN fs
        /\ fs[result.output_path] = InputBefore

\* C5: for metadata under 5 KiB, whatever its format, select_optimal
\* without a user override returns a decision with skip_compression true
\* and strategy_type skip.
C5_TinyAlwaysSkipDecision ==
    (pc = "decide" /\ metadata.file_size < 5120) =>
        /\ ~select_optimal(metadata, config).invalid
        /\ select_optimal(metadata, config).skip_compression
        /\ select_optimal(metadata, config).strategy_type = "skip"
        /\ ~select_optimal(metadata, NoConfig).invalid
        /\ select_optimal(metadata, NoConfig).skip_compression
        /\ select_optimal(metadata, NoConfig).strategy_type = "skip"

\* C6: on a skip path (the strategy's decision or the builder's signal)
\* the call returns success with format_used "SKIPPED" and compressed_size
\* = original_size, and the file at output_path is the input's bytes.
C6_SkipCopiesVerbatim ==
    (pc = "done" /\ trail.skip \in {"strategy", "builder"}) =>
        /\ Completed
        /\ result.success
        /\ result.format_used = "SKIPPED"
        /\ result.compressed_size = result.original_size
        /\ result.output_path \in DOMAIN fs
        /\ fs[result.output_path] = InputBefore

\* C7: a call on an input path that does not exist, through process_image
\* or compress_image, returns success = false with an error that spells
\* out the input path, and creates no file and no directory.
C7_MissingInputFails ==
    (pc = "done" /\ ~exists(before.fs, before.dirs, call.args.input_path)) =>
        /\ Completed
        /\ ~result.success
        /\ ~result.error.is_none
        /\ call.args.input_path \in result.error.paths
        /\ fs = before.fs
        /\ dirs = before.dirs

\* process_image has returned for a missing input whose output directory
\* did not exist
C7_Witness ==
    /\ pc = "done"
    /\ call.entry = "process_image"
    /\ call.args.input_path = MissingPath
    /\ call.args.output_dir = "out"
    /\ "out" \notin dirs
    /\ ~result.success

\* C8: whatever fails, the call ends by returning a CompressionResult,
\* with success = false and a non-empty error on failure; no exception
\* reaches the caller.
C8_NoExceptionEscapes ==
    pc = "done" =>
        /\ raised = NoException
        /\ (~result.success => ~result.error.is_none)

\* the destination a call was going to write to: the explicit output_path,
\* else the generated path
IntendedDestinations ==
    IF call.args.output_path # NoPath THEN {call.args.output_path}
    ELSE {generate_auto_path(call.args, call.args.input_path, NoFormat, FALSE)}
         \cup (IF config = NoConfig THEN {}
               ELSE {generate_auto_path(config, config.input_path, NoFormat,
                                        FALSE)})

\* C9: a failed result carries as output_path the destination the call was
\* going to write to, and a non-empty error.
C9_FailureKeepsDestination ==
    (Completed /\ ~result.success) =>
        /\ ~result.error.is_none
        /\ result.output_path \in IntendedDestinations

\* C10: after an exception in the transform, the encode or the
\* post-processing the call returns success = false, and the intended
\* output path holds no new, partial or truncated file.
C10_FailureLeavesNoFile ==
    (pc = "done" /\ trail.failed_at \in {"transform", "encode", "post"}) =>
        /\ Completed
        /\ ~result.success
        /\ \A p \in IntendedDestinations :
                p \in DOMAIN fs =>
                    (p \in DOMAIN before.fs /\ fs[p] = before.fs[p])

\* C11: every successful result names as output_path a file that exists
\* when the call returns and whose size is the reported compressed_size,
\* also after the rename and the fallback copy and when one of those
\* steps meets an I/O error.
C11_OutputExistsWithReportedSize ==
    (Completed /\ result.success) =>
        /\ result.output_path \in DOMAIN fs
        /\ fs[result.output_path].size = result.compressed_size

\* the directory request has returned its BatchResult
BatchReturned ==
    batch.entry \in {"process_directory", "compress_universal"}
        /\ batch.stage = "done"

\* C12: the BatchResult of a directory request (automatic format, one
\* format, several formats) has success true if at least one of its file
\* results succeeded, and false only if every file result failed.
C12_BatchSuccessFollowsFiles ==
    BatchReturned =>
        LET r == batch.final
        IN  /\ (\E i \in 1..Len(r.results) : r.results[i].success) => r.success
            /\ ~r.success => \A i \in 1..Len(r.results) : ~r.results[i].success

\* compress_multi_format has returned its MultiFormatResult
MultiReturned == batch.entry = "compress_multi_format" /\ batch.stage = "done"

\* the valid names among the requested formats, under their standard names
ValidRequested ==
    {validate_format(batch.asked[k]) : k \in 1..Len(batch.asked)} \ {NoFormat}

\* where a standard name is first requested
FirstRequest(f) ==
    CHOOSE k \in 1..Len(batch.asked) :
        /\ validate_format(batch.asked[k]) = f
        /\ \A m \in 1..(k - 1) : validate_format(batch.asked[m]) # f

\* C13: compress_multi_format returns exactly one CompressionResult for
\* every distinct valid requested format, in the order of the request; a
\* format that fails is a failed entry beside the others; the overall
\* success is true exactly when an entry succeeded.
C13_OneResultPerFormat ==
    (MultiReturned /\ ValidRequested # {}) =>
        LET r == batch.final
            formats == batch.formats
        IN  /\ {formats[i] : i \in 1..Len(formats)} = ValidRequested
            /\ \A i, j \in 1..Len(formats) :
                    i < j => FirstRequest(formats[i]) < FirstRequest(formats[j])
            /\ Len(r.results) = Len(formats)
            /\ \A i \in 1..Len(r.results) :
                    r.results[i].success =>
                        r.results[i].format_used \in {formats[i], "SKIPPED"}
            /\ r.success = (\E i \in 1..Len(r.results) : r.results[i].success)

\* C14: within one process_directory batch the output paths of distinct
\* input files are pairwise distinct, the paths of renamed outputs
\* included, so no output overwrites another of the same batch.
C14_OutputPathsDistinct ==
    batch.entry \in {"process_directory", "compress_universal"} =>
        \A i, j \in 1..Len(batch.results) :
            (/\ batch.results[i].success
             /\ batch.results[j].success
             /\ batch.results[i].input_path # batch.results[j].input_path)
                => batch.results[i].output_path # batch.results[j].output_path

\* C15: a directory request never enumerates as input a file that a run of
\* the same request has written as output, in the same run or in a later
\* run with the same arguments.
C15_OutputsNeverRescanned ==
    batch.entry \in {"process_directory", "compress_universal"} =>
        batch.rescanned = {}

\* C16: for the metadata of every image and for the caller's config as
\* for a user-override config, select_optimal returns a decision, and its
\* recommended_format, when present, is one of the codec's supported
\* formats; skip decisions, which echo the detected format, included.
C16_DecisionFormatSupported ==
    pc = "decide" =>
        \A c \in {config, NoConfig} \cup
                 {[config EXCEPT !.quality_mode = "custom",
                                 !.custom_quality = 80,
                                 !.target_format = f] : f \in TargetFormats} :
            LET decision == select_optimal(metadata, c)
            IN  /\ ~decision.invalid
                /\ decision.recommended_format
                        \in supported_formats \cup {NoFormat}

\* the builder has built the parameters of a JPEG target for a user quality
JpegBuilt ==
    /\ pc = "built"
    /\ processed.target_format = "JPEG"
    /\ config.custom_quality \in 1..100

\* C17 as stated: for a JPEG target and a user quality q in 1..100,
\* quality_used is q for q in 1..99 and 98 for q = 100; it is never 100
\* and always lies in 1..98.
C17_JpegQualityAsStated ==
    JpegBuilt =>
        /\ processed.quality_used =
                (IF config.custom_quality = 100 THEN 98
                                                ELSE config.custom_quality)
        /\ processed.quality_used # 100
        /\ processed.quality_used \in 1..98

\* C17, amended: for a JPEG target and a user quality q in 1..100,
\* quality_used is q for q in 1..99 and 98 for q = 100; it is never 100
\* and always lies in 1..99.
C17_JpegQualityNever100 ==
    JpegBuilt =>
        /\ processed.quality_used =
                (IF config.custom_quality = 100 THEN 98
                                                ELSE config.custom_quality)
        /\ processed.quality_used # 100
        /\ processed.quality_used \in 1..99

\* a JPEG target was built for the user quality 100
C17_Witness ==
    /\ JpegBuilt
    /\ config.custom_quality = 100
    /\ processed.quality_used = 98

\* C18: a compress_image request on an image file whose format string is
\* a letter-case variant or an alias of a supported format ("jpg", "webp"),
\* the other arguments being valid, passes validation and is processed
\* with the canonical format (JPEG, WEBP).
C18_FormatSpellingsAccepted ==
    (/\ Completed
     /\ call.entry = "compress_image"
     /\ call.args.target_format \in {"jpg", "webp"}
     /\ call.args.resize_config.max_width >= 0
     /\ call.args.resize_config.max_height >= 0)
        => /\ trail.failed_at # "build"
           /\ config.target_format = get_format_alias(call.args.target_format)
           /\ result.success =>
                result.format_used \in {config.target_format, "SKIPPED"}

\* C19: a compress_image request whose max_width or max_height is not
\* positive, or lies over 50000, is rejected with a validation failure:
\* success is false and nothing was processed.  (0 stands for a bound left
\* out; the bound that is not positive is -1.)
C19_BadBoundsRejected ==
    (/\ pc = "done"
     /\ call.entry = "compress_image"
     /\ LET rc == call.args.resize_config
        IN  \/ rc.max_width < 0 \/ rc.max_width > 50000
            \/ rc.max_height < 0 \/ rc.max_height > 50000)
        => /\ raised = NoException
           /\ ~result.success
           /\ trail.failed_at = "build"
           /\ fs = before.fs

\* the call is made on the photograph with no quality and no format
PlainPhotoCall ==
    /\ call.args.input_path = PhotoPng
    /\ call.args.custom_quality = NoQuality
    /\ call.args.target_format = NoFormat
    /\ call.args.resize_config.is_none

\* C20: for the 2000 x 1600, 3.5 MB, photo-like PNG without transparency
\* and a call with no quality and no format, the strategy's decision is a
\* lossy one with recommended_format JPEG or WEBP, and the call succeeds
\* with compressed_size < 3.5 MB x 1.005.
C20_LargePhotoPngGoesLossy ==
    /\ (PlainPhotoCall /\ pc = "decide") =>
            /\ analyze_image_from_metadata(metadata).is_photo_like
            /\ select_optimal(metadata, config).strategy_type = "lossy"
            /\ select_optimal(metadata, config).recommended_format
                    \in {"JPEG", "WEBP"}
    /\ (PlainPhotoCall /\ pc = "done") =>
            /\ raised = NoException
            /\ result.success
            /\ IF ((InputBefore.size % 1000) * 1005) % 1000 = 0
               THEN result.compressed_size < Permille(InputBefore.size, 1005)
               ELSE result.compressed_size <= Permille(InputBefore.size, 1005)

-----------------------------------------------------------------------------
(* Color-mode preparation: FormatProcessor.prepare_for_format
   (core/formats.py).  An image is its mode, whether img.info has a
   "transparency" entry, and whether its pixels are all gray. *)

\* Image.convert(mode)
convert(img, mode) == [img EXCEPT !.mode = mode]

\* the modes of the codec that carry an alpha band
AlphaModes == {"RGBA", "LA", "PA"}

\* _prepare_for_jpeg: a palette image without a transparency entry is
\* converted to RGB; the others of the first branch are pasted, through
\* their alpha band, on a new RGB image, which is returned
prepare_for_jpeg(img) ==
    IF img.mode \in {"RGBA", "LA", "P"}
    THEN IF img.mode = "P" /\ ~img.transparency
         THEN convert(img, "RGB")
         ELSE [mode |-> "RGB", transparency |-> FALSE, gray |-> img.gray]
    ELSE IF img.mode = "CMYK" THEN convert(img, "RGB")
    ELSE IF img.mode \in {"L", "1"} THEN convert(img, "RGB")
    ELSE IF img.mode # "RGB" THEN convert(img, "RGB")
    ELSE img

\* _prepare_for_png that converts every palette image to RGB
prepare_for_png_DropPalette(img) ==
    IF img.mode = "P" THEN convert(img, "RGB")
    ELSE IF img.mode = "CMYK" THEN convert(img, "RGB")
    ELSE IF img.mode = "1" THEN img
    ELSE IF img.mode = "RGB" /\ img.gray THEN convert(img, "L")
    ELSE img

\* _prepare_for_png
prepare_for_png(img) ==
    IF img.mode = "P"
    THEN IF img.transparency THEN convert(img, "RGBA") ELSE convert(img, "RGB")
    ELSE IF img.mode = "CMYK" THEN convert(img, "RGB")
    ELSE IF img.mode = "1" THEN img
    ELSE IF img.mode = "RGB" /\ img.gray THEN convert(img, "L")
    ELSE img

\* _prepare_for_webp
prepare_for_webp(img) ==
    IF img.mode = "P"
    THEN IF img.transparency THEN convert(img, "RGBA") ELSE convert(img, "RGB")
    ELSE IF img.mode = "LA" THEN convert(img, "RGBA")
    ELSE IF img.mode = "L" THEN convert(img, "RGB")
    ELSE img

\* prepare_for_format; the AVIF and HEIF plugins are not installed
prepare_for_format(img, target_format) ==
    LET target == IF target_format \notin supported_formats THEN "JPEG"
                  ELSE target_format
    IN  CASE target = "JPEG" -> prepare_for_jpeg(img)
          [] target = "PNG"  -> prepare_for_png(img)
          [] target = "WEBP" -> prepare_for_webp(img)
          [] OTHER -> img

\* the image _process_image hands to prepare_for_format and the target
\* format it names; `processed` holds both, then the image returned
InitPrepare ==
    \E mode \in AlphaModes \cup {"RGB", "P", "L", "1", "CMYK", "YCbCr", "I"},
       transparency \in BOOLEAN, gray \in BOOLEAN,
       fmt \in {"JPEG", "PNG", "WEBP", "BMP", "UNKNOWN"} :
        /\ processed = [img |-> [mode |-> mode, transparency |-> transparency,
                                 gray |-> gray],
                        target_format |-> fmt,
                        prepared |-> [mode |-> "<none>", transparency |-> FALSE,
                                      gray |-> FALSE]]
        /\ fs = <<>>
        /\ dirs = {"in", "/"}
        /\ pc = "prepare"
        /\ call = NoCall
        /\ config = NoConfig
        /\ metadata = NoMetadata
        /\ output_path = NoPath
        /\ compressed_size = 0
        /\ fallback_threshold = 0
        /\ trail = NoTrail
        /\ before = [fs |-> fs, dirs |-> dirs]
        /\ result = NoResult
        /\ raised = NoException
        /\ batch = NoBatch

\* img = format_processor.prepare_for_format(img, target_format)
PrepareForFormat ==
    /\ pc = "prepare"
    /\ processed' = [processed EXCEPT
            !.prepared = prepare_for_format(processed.img,
                                            processed.target_format)]
    /\ pc' = "prepared"
    /\ UNCHANGED <<fs, dirs, call, config, metadata, output_path,
                   compressed_size, fallback_threshold, trail, before, result,
                   raised, batch>>

SpecPrepare == InitPrepare /\ [][PrepareForFormat]_vars

\* the source image carries transparency: an alpha band, or a palette with
\* a transparency entry
CarriesTransparency(img) ==
    \/ img.mode \in AlphaModes
    \/ (img.mode = "P" /\ img.transparency)

\* C21: for every source mode that carries transparency (RGBA, LA, a
\* palette with a transparency entry), prepare_for_format for PNG or WEBP
\* returns a mode with an alpha band, and for every source mode
\* prepare_for_format for JPEG returns mode RGB.
C21_AlphaKeptOrDropped ==
    pc = "prepared" =>
        /\ (processed.target_format \in {"PNG", "WEBP"}
            /\ CarriesTransparency(processed.img))
                => processed.prepared.mode \in AlphaModes
        /\ processed.target_format = "JPEG" => processed.prepared.mode = "RGB"

\* a palette image with a transparency entry was prepared for PNG
C21_Witness ==
    /\ pc = "prepared"
    /\ processed.target_format = "PNG"
    /\ processed.img = [mode |-> "P", transparency |-> TRUE, gray |-> FALSE]
    /\ processed.prepared.mode = "RGBA"

-----------------------------------------------------------------------------
\* select_optimal is about to be called in automatic mode on an image the
\* skip guard lets through
AutomaticDecision ==
    /\ pc = "decide"
    /\ config.quality_mode = "lossless"
    /\ config.target_format = NoFormat
    /\ ~should_skip_compression(metadata)

\* C22: in automatic mode, for an input of format JPEG, PNG or WEBP that
\* the skip guard does not catch, select_optimal returns the decision of
\* the original-format step (lossless for JPEG and PNG, lossless or lossy
\* at 85 for WEBP), whose recommended_format is the input's format; for
\* any other input format it returns the decision of the matrix.
C22_OriginalFormatFirst ==
    AutomaticDecision =>
        LET decision == select_optimal(metadata, config)
        IN  IF metadata.format \in {"JPEG", "PNG", "WEBP"}
            THEN /\ decision.recommended_format = metadata.format
                 /\ ~decision.skip_compression
                 /\ decision.strategy_type \in {"lossless", "lossy"}
                 /\ decision.strategy_type = "lossy" =>
                        /\ metadata.format = "WEBP"
                        /\ decision.recommended_quality = 85
            ELSE decision = make_decision(decision_factors(metadata), metadata)

\* a PNG of 300000 bytes, which the skip guard lets through, reaches the
\* decision in automatic mode
C22_Witness ==
    /\ AutomaticDecision
    /\ metadata.format = "PNG"
    /\ metadata.file_size = 300000

-----------------------------------------------------------------------------
(* Calls on images whose format the original-format step does not know
   (BMP, GIF), over the complexity metrics the extractor can compute *)

\* ComplexityMetrics of _calculate_complexity, in percent: one or more for
\* each rating of overall_complexity, with color_diversity under 10, between
\* 10 and 50, and over 50; NoComplexity when the computation failed
Complexities ==
    {ComplexityMetrics(5, 5, 5), ComplexityMetrics(5, 30, 5),
     ComplexityMetrics(30, 5, 30), ComplexityMetrics(30, 30, 30),
     ComplexityMetrics(50, 30, 50), ComplexityMetrics(40, 60, 40),
     ComplexityMetrics(75, 40, 75), ComplexityMetrics(60, 70, 60),
     ComplexityMetrics(90, 90, 90), NoComplexity}

InitStrategy ==
    \E kind \in {[ext |-> ".bmp", format |-> "BMP"],
                 [ext |-> ".gif", format |-> "GIF"]},
       size \in {300000, 6000000}, alpha \in BOOLEAN,
       cx \in Complexities, mid \in {20, 30, 40} :
        /\ fs = (Path("in", "a", kind.ext) :>
                    Content("orig", kind.format, 800, 600, size, alpha, cx, mid))
        /\ dirs = {"in", "/"}
        /\ pc = "idle"
        /\ call = NoCall
        /\ config = NoConfig
        /\ metadata = NoMetadata
        /\ processed = NoProcessed
        /\ output_path = NoPath
        /\ compressed_size = 0
        /\ fallback_threshold = 0
        /\ trail = NoTrail
        /\ before = [fs |-> fs, dirs |-> dirs]
        /\ result = NoResult
        /\ raised = NoException
        /\ batch = NoBatch

SpecStrategy == InitStrategy /\ [][NextNoFault]_vars

\* the decision is left to the matrix, for an image without transparency
\* that is photo-like and not a simple graphic
MatrixPhoto(m) ==
    /\ ~should_skip_compression(m)
    /\ m.format \notin {"JPEG", "PNG", "WEBP"}
    /\ ~decision_factors(m).has_transparency
    /\ ~decision_factors(m).is_simple_graphic
    /\ decision_factors(m).is_photo

\* C23: in the matrix, a photo-like image without transparency that is not
\* a simple graphic gets lossy JPEG at 85 when it is large or of high
\* complexity and lossless WEBP only when it is small and of low
\* complexity; and the high-complexity alternative is effective: for a
\* small such image there are complexity metrics of the extractor with
\* which it gets lossy JPEG.
C23_HighComplexityEffective ==
    (AutomaticDecision /\ MatrixPhoto(metadata)) =>
        LET decision == select_optimal(metadata, config)
            factors == decision_factors(metadata)
        IN  /\ (factors.large_file \/ factors.high_complexity) =>
                    decision = CompressionDecision("lossy", 85, "JPEG", FALSE)
            /\ decision = CompressionDecision("lossless", NoQuality, "WEBP", FALSE)
                    => (~factors.large_file /\ ~factors.high_complexity)
            /\ ~factors.large_file =>
                    \E cx \in Complexities :
                        LET other == [metadata EXCEPT !.complexity = cx]
                        IN  /\ MatrixPhoto(other)
                            /\ select_optimal(other, config) =
                                CompressionDecision("lossy", 85, "JPEG", FALSE)

-----------------------------------------------------------------------------
\* the extractor has produced the metadata, complexity metrics included
Rated == metadata # NoMetadata /\ ~metadata.complexity.is_none

\* C24: for every rating of overall_complexity and every color_diversity,
\* analyze_image_from_metadata sets is_simple_graphic iff the rating is the
\* lowest category (simple, very_low) or color_diversity < 0.1, and
\* is_photo_like iff the rating is one of moderate, complex, high,
\* very_high, or color_diversity > 0.5, or the mid-tone ratio > 0.3.
C24_CharacteristicsFollowRating ==
    Rated =>
        LET rating == overall_complexity(metadata.complexity)
            found == analyze_image_from_metadata(metadata)
        IN  /\ found.is_simple_graphic <=>
                    \/ rating \in {"simple", "very_low"}
                    \/ metadata.complexity.color_diversity < 10
            /\ found.is_photo_like <=>
                    \/ rating \in {"moderate", "complex", "high", "very_high"}
                    \/ metadata.complexity.color_diversity > 50
                    \/ metadata.mid_ratio > 30

-----------------------------------------------------------------------------
\* the call went through the encoder and returned its result
Encoded ==
    /\ Completed
    /\ result.success
    /\ trail.skip \notin {"strategy", "builder"}

\* the path the encoder wrote to when no output_path was given: the
\* input's name with the quality suffix
SuffixedPath ==
    Path(IF config.output_dir # "" THEN config.output_dir
                                   ELSE config.input_path.dir,
         config.input_path.stem \o
            (IF config.custom_quality # NoQuality
                /\ config.quality_mode # "lossless"
             THEN "_compress_" \o ToString(config.custom_quality)
             ELSE "_compress"),
         IF config.target_format # NoFormat
         THEN get_format_extension(config.target_format)
         ELSE config.input_path.ext)

\* the same name without the quality suffix, in the target format's
\* extension
SuffixFreePath ==
    Path(IF config.output_dir # "" THEN config.output_dir
                                   ELSE config.input_path.dir,
         config.input_path.stem,
         get_format_extension(result.format_used))

\* the encoder gained less than 5% (an output the fallback replaced had
\* grown)
NegligibleGain ==
    \/ trail.skip = "fallback"
    \/ (result.original_size - result.compressed_size) * 100
            < 5 * result.original_size

RenameDue ==
    /\ config.quality_mode = "lossless"
    /\ NegligibleGain
    /\ config.output_path = NoPath

-----------------------------------------------------------------------------
(* ConcurrentExecutor.execute_tasks (engine/concurrent_executor.py) with
   concurrent workers.  A worker runs a submitted task to its end in one
   step, while the submit loop may still be running; as_completed hands
   out the futures in the order in which their tasks ended.  `batch` holds
   the executor's state: the configs (their input paths), one future per
   submitted config, the order of completion, and the results list. *)

\* the longest list of configs
MaxConfigs == 3

\* the lists of configs handed to execute_tasks, by input path: the two
\* image files of directory in, with repetitions, and the root directory
ConfigLists ==
    LET paths == {Path(i.dir, i.stem, i.ext) : i \in {x \in Images : x.dir = "in"}}
    IN  UNION {[1..n -> paths \cup {RootPath}] : n \in 0..MaxConfigs}

\* what task_function(config) = process_image(config) ends with: a result
\* of success, the error result of its except clause, or the exception a
\* worker process that died leaves in the future (BrokenProcessPool)
TaskEnds(files, input_path, how) ==
    CASE how = "ok" ->
            Returned(CompressionResult(
                input_path, Path("out", input_path.stem, input_path.ext),
                files[input_path].size, Permille(files[input_path].size, 700),
                TRUE, files[input_path].format, NoQuality, FALSE, <<800, 600>>,
                NoError))
      [] how = "error" ->
            handle_compression_error(files,
                Exception("OSError", {input_path}), input_path,
                "image compression engine")
      [] OTHER -> Raised(Exception("BrokenProcessPool", {}))

InitExecutor ==
    /\ fs = Tree({x \in Images : x.dir = "in"})
    /\ dirs = {"in", "/"}
    /\ pc = "waiting"
    /\ call = NoCall
    /\ config = NoConfig
    /\ metadata = NoMetadata
    /\ processed = NoProcessed
    /\ output_path = NoPath
    /\ compressed_size = 0
    /\ fallback_threshold = 0
    /\ trail = NoTrail
    /\ before = [fs |-> fs, dirs |-> dirs]
    /\ result = NoResult
    /\ raised = NoException
    /\ batch = [entry |-> "execute_tasks", stage |-> "idle", configs |-> <<>>,
                futures |-> <<>>, completed |-> <<>>, results |-> <<>>]

\* execute_tasks(compression_configs, task_function) up to the submit loop
CallExecuteTasks ==
    /\ batch.stage = "idle"
    /\ \E configs \in ConfigLists :
        batch' = [batch EXCEPT
                    !.configs = configs,
                    !.futures = [i \in 1..Len(configs) |->
                                    [state |-> "none",
                                     out |-> Raised(NoException)]],
                    !.stage = IF configs = <<>> THEN "returned" ELSE "submit"]
    /\ UNCHANGED raised
    /\ UNCHANGED <<fs, dirs, pc, call, config, metadata, processed, output_path,
                 compressed_size, fallback_threshold, trail, before, result>>

\* one turn of the loop of _submit_tasks: executor.submit succeeds, or
\* raises and the error result is appended
SubmitOne ==
    /\ batch.stage = "submit"
    /\ LET i == Cardinality({k \in DOMAIN batch.futures :
                                batch.futures[k].state # "none"}) + 1
           last == i = Len(batch.configs)
           failed == handle_with_context(fs, Exception("RuntimeError", {}),
                                         batch.configs[i], "task submission",
                                         NoPath)
       IN  \E accepted \in BOOLEAN :
            IF accepted
            THEN /\ batch' = [batch EXCEPT
                        !.futures[i].state = "pending",
                        !.stage = IF last THEN "collect" ELSE "submit"]
                 /\ UNCHANGED raised
            ELSE IF failed.raised # NoException
            THEN /\ batch' = [batch EXCEPT !.futures[i].state = "refused",
                                           !.stage = "raised"]
                 /\ raised' = failed.raised
            ELSE /\ batch' = [batch EXCEPT
                        !.futures[i].state = "refused",
                        !.results = Append(@, failed.result),
                        !.stage = IF last THEN "collect" ELSE "submit"]
                 /\ UNCHANGED raised
    /\ UNCHANGED <<fs, dirs, pc, call, config, metadata, processed, output_path,
                 compressed_size, fallback_threshold, trail, before, result>>

\* a worker runs a submitted task to its end; only a task on a file can
\* succeed
RunTask ==
    /\ batch.stage \in {"submit", "collect"}
    /\ \E i \in DOMAIN batch.futures :
        /\ batch.futures[i].state = "pending"
        /\ \E how \in IF batch.configs[i] \in DOMAIN fs
                       THEN {"ok", "error", "broken"}
                       ELSE {"error", "broken"} :
            batch' = [batch EXCEPT
                        !.futures[i] =
                            [state |-> "done",
                             out |-> TaskEnds(fs, batch.configs[i], how)],
                        !.completed = Append(@, i)]
    /\ UNCHANGED raised
    /\ UNCHANGED <<fs, dirs, pc, call, config, metadata, processed, output_path,
                 compressed_size, fallback_threshold, trail, before, result>>

\* one turn of the loop of _collect_results over as_completed
CollectOne ==
    /\ batch.stage = "collect"
    /\ batch.completed # <<>>
    /\ LET i == Head(batch.completed)
           out == batch.futures[i].out
           handled == IF out.raised # NoException
                      THEN handle_with_context(fs, out.raised,
                                               batch.configs[i],
                                               "concurrent task", NoPath)
                      ELSE out
       IN  IF handled.raised # NoException
           THEN /\ batch' = [batch EXCEPT !.futures[i].state = "collected",
                                          !.completed = Tail(@),
                                          !.stage = "raised"]
                /\ raised' = handled.raised
           ELSE /\ batch' = [batch EXCEPT
                                !.futures[i].state = "collected",
                                !.completed = Tail(@),
                                !.results = Append(@, handled.result)]
                /\ UNCHANGED raised
    /\ UNCHANGED <<fs, dirs, pc, call, config, metadata, processed, output_path,
                 compressed_size, fallback_threshold, trail, before, result>>

\* as_completed is exhausted: execute_tasks returns the results
ReturnResults ==
    /\ batch.stage = "collect"
    /\ \A i \in DOMAIN batch.futures :
            batch.futures[i].state \in {"collected", "refused"}
    /\ batch' = [batch EXCEPT !.stage = "returned"]
    /\ UNCHANGED raised
    /\ UNCHANGED <<fs, dirs, pc, call, config, metadata, processed, output_path,
                 compressed_size, fallback_threshold, trail, before, result>>

NextExecutor ==
    \/ CallExecuteTasks
    \/ SubmitOne
    \/ RunTask
    \/ CollectOne
    \/ ReturnResults

SpecExecutor == InitExecutor /\ [][NextExecutor]_vars

\* C26: for every list of configs and every order in which the tasks end,
\* execute_tasks returns, without raising, exactly one CompressionResult
\* per config, carrying that config's input_path; a task that raised or
\* could not be submitted is among them as a failed result.
C26_OneResultPerConfig ==
    batch.stage \in {"returned", "raised"} =>
        /\ raised = NoException
        /\ batch.stage = "returned"
        /\ Len(batch.results) = Len(batch.configs)
        /\ \A p \in {batch.configs[i] : i \in DOMAIN batch.configs} :
            /\ Cardinality({j \in DOMAIN batch.results :
                                batch.results[j].input_path = p})
                 = Cardinality({i \in DOMAIN batch.configs :
                                batch.configs[i] = p})
            /\ Cardinality({j \in DOMAIN batch.results :
                                /\ batch.results[j].input_path = p
                                /\ batch.results[j].success})
                 = Cardinality({i \in DOMAIN batch.configs :
                                /\ batch.configs[i] = p
                                /\ batch.futures[i].state = "collected"
                                /\ batch.futures[i].out.result.success})

-----------------------------------------------------------------------------
\* C27: for every config, also one whose output_path is the input_path,
\* when process_image has returned or raised, the input file is on disk
\* with the bytes it had when the call was made.
C27_InputFileUntouched ==
    (pc = "done" /\ call.args.input_path \in DOMAIN before.fs) =>
        /\ call.args.input_path \in DOMAIN fs
        /\ fs[call.args.input_path] = before.fs[call.args.input_path]

-----------------------------------------------------------------------------
\* C28: for every successful result that is no skip, format_used is the
\* format the file at output_path is encoded in: for generated paths,
\* after the rename, for an unknown detected format and for an output_path
\* the user gave.
C28_FormatUsedIsFileFormat ==
    (Encoded /\ result.output_path \in DOMAIN fs) =>
        fs[result.output_path].format = result.format_used

-----------------------------------------------------------------------------
(* Directory requests on a tree in which a directory named in the
   exclusion list lies beneath one scanned directory and is the other
   scanned directory itself *)

ScanTree ==
    ImageFile([dir |-> "in", stem |-> "a", ext |-> ".png", format |-> "PNG"])
    @@ ImageFile([dir |-> "in/output", stem |-> "b", ext |-> ".png",
                  format |-> "PNG"])
    @@ ImageFile([dir |-> "output", stem |-> "c", ext |-> ".jpg",
                  format |-> "JPEG"])
    @@ Tree({})

InitScan ==
    /\ fs = ScanTree
    /\ dirs = {"in", "in/output", "output", "/"}
    /\ pc = "waiting"
    /\ call = NoCall
    /\ config = NoConfig
    /\ metadata = NoMetadata
    /\ processed = NoProcessed
    /\ output_path = NoPath
    /\ compressed_size = 0
    /\ fallback_threshold = 0
    /\ trail = NoTrail
    /\ before = [fs |-> fs, dirs |-> dirs]
    /\ result = NoResult
    /\ raised = NoException
    /\ batch = NoBatch

\* process_directory, with exclude_dirs or without, or compress_universal,
\* on one of the directories; no output directory
CallOnDirectory ==
    /\ pc = "waiting"
    /\ batch.stage = "idle"
    /\ \E input_dir \in {"in", "output"}, q \in Qualities, recursive \in BOOLEAN,
          exclude_dirs \in {{}, {"output"}, DefaultExcludes} :
        batch' = [DirectoryRequest(
                    IF exclude_dirs = DefaultExcludes THEN "compress_universal"
                                                      ELSE "process_directory",
                    "", q, <<NoFormat>>, recursive)
                  EXCEPT !.input_dir = input_dir,
                         !.exclude_dirs = exclude_dirs]
    /\ UNCHANGED <<fs, dirs, pc, call, config, metadata, processed,
                   output_path, compressed_size, fallback_threshold, trail,
                   before, result, raised>>

NextScan ==
    \/ CallOnDirectory
    \/ ProcessDirectory
    \/ SubmitTask
    \/ Validate
    \/ ExtractNoFault
    \/ Decide
    \/ CompressNoFault
    \/ BatchEncode
    \/ PostProcessNoFault
    \/ CollectTask

SpecScan == InitScan /\ [][NextScan]_vars

\* the scan of a request has been made and none of its tasks has run
Scanned ==
    /\ pc = "waiting"
    /\ batch.run = 1
    /\ \/ batch.stage = "run" /\ batch.results = <<>>
       \/ batch.stage = "done" /\ batch.scanned = {}

\* C29: the scan of process_directory yields every supported image file
\* under the scanned directory that does not lie in an excluded directory
\* beneath it; an excluded name that occurs only in the path of the
\* scanned directory itself, or as a file's own name, leaves no file out.
C29_ScanSkipsOnlyBeneathRoot ==
    Scanned =>
        batch.scanned =
            {p \in DOMAIN fs :
                /\ IF batch.recursive
                   THEN is_relative_to(p.dir, batch.input_dir)
                   ELSE p.dir = batch.input_dir
                /\ registered_extensions(p.ext) # NoFormat
                /\ \A x \in batch.exclude_dirs :
                    \A i \in DOMAIN relative_parent(p, batch.input_dir) :
                        relative_parent(p, batch.input_dir)[i] # x}

-----------------------------------------------------------------------------
(* _resize_image by itself: _process_image on images from one pixel to
   very elongated ones, for every kind of ResizeConfig *)

InitResize ==
    \E width \in {1, 2, 10, 300, 2000, 5000},
       height \in {1, 2, 10, 300, 2000, 5000},
       max_width \in {NoDim, 1, 100, 400},
       max_height \in {NoDim, 1, 300}, keep \in BOOLEAN, up \in BOOLEAN :
        /\ metadata = ImageMetadata(300000, "PNG", width, height, FALSE,
                                    NoComplexity, 0)
        /\ config = CompressionConfig(
                        Path("in", "a", ".png"), NoPath, "", "lossless", NoQuality, NoFormat,
                        IF max_width = NoDim /\ max_height = NoDim
                        THEN NoResizeConfig
                        ELSE ResizeConfig(max_width, max_height, keep, up))
        /\ fs = <<>>
        /\ dirs = {"in", "/"}
        /\ pc = "resize"
        /\ call = NoCall
        /\ processed = NoProcessed
        /\ output_path = NoPath
        /\ compressed_size = 0
        /\ fallback_threshold = 0
        /\ trail = NoTrail
        /\ before = [fs |-> fs, dirs |-> dirs]
        /\ result = NoResult
        /\ raised = NoException
        /\ batch = NoBatch

\* _process_image: if config.should_resize: img = _resize_image(img, ...)
ResizeImage ==
    /\ pc = "resize"
    /\ LET size == process_image_dims(metadata.width, metadata.height, config)
       IN  processed' = [processed EXCEPT
                            !.width = size[1], !.height = size[2],
                            !.was_resized =
                                size # <<metadata.width, metadata.height>>]
    /\ pc' = "resized"
    /\ UNCHANGED <<fs, dirs, call, config, metadata, output_path,
                   compressed_size, fallback_threshold, trail, before, result,
                   raised, batch>>

SpecResize == InitResize /\ [][ResizeImage]_vars

\* C30: whenever _resize_image scales an image down, both target
\* dimensions are at least 1, for every source size and every bound, also
\* for very elongated images whose scaled short side rounds down.
C30_ResizeTargetAtLeastOne ==
    (pc = "resized" /\ processed.was_resized) =>
        /\ processed.width >= 1
        /\ processed.height >= 1

====
